---- MODULE Spec2Model ----
(***************************************************************************)
(* A model of the AUJobsScraper persistence core: the job_postings table,  *)
(* JobDatabase.upsert_job / update_duplicate_job (jobly/db/job_database.py)*)
(* as interleavable sequences of database round trips, and the two         *)
(* fingerprint functions.                                                  *)
(*                                                                         *)
(* Text is a sequence of one-character strings; a JSON scalar other than   *)
(* company / job_title is a sequence holding one opaque token.  None is    *)
(* the one-element sequence <<"None">>.                                    *)
(***************************************************************************)
EXTENDS Integers, Sequences, FiniteSets, TLC

VARIABLES
    rows,       \* the job_postings table: rows[i] is the row whose id is i
    now,        \* the clock read by datetime.now()
    call,       \* per caller: the position and locals of its running call
    started,    \* number of calls begun so far
    faults,     \* persistence failures the environment may still inject
    lastDone,   \* history: the last completed call and the table it left
    fpBase,     \* fingerprint study: a job_data dict
    fpVar,      \* fingerprint study: a case/whitespace variant of fpBase
    handed,     \* scrapers: the dicts save_job has passed to upsert_job
    results,    \* scrapers: BaseScraper._results, the collected postings
    locInput,   \* locations: the list given to normalize_locations
    locOutput,  \* locations: what normalize_locations returned for it
    salTokens,  \* salary: the pieces salText was put together from
    salText,    \* salary: the text given to the extractors
    salResult,  \* salary: what the extractors returned for it
    roleTitle,  \* roles: the pieces of the title given to extract_job_role
    roleResult, \* roles: what extract_job_role returned for it
    embedding_model, \* embedding: _embedding_model of each scraper_utils module
    role_embeddings, \* embedding: _role_embeddings of each scraper_utils module
    embCall,    \* embedding: the last extract_job_role call and what its provider did
    indeedCfg,  \* indeed: the IndeedScraper as constructed, and scrape's skip_urls
    indeedTasks, \* indeed: the per-term tasks of the scrape in progress
    indeedOut,  \* indeed: how the last scrape ended and the list it returned
    pageCfg,    \* pages: the scraper class, the settings and how scrape() is consumed
    pageRun,    \* pages: where scrape() is in its loops over keywords and listing pages
    pageOut,    \* pages: what each listing page collected and what the caller received
    pjc,        \* workers: the process_jobs_concurrently call in progress or last made
    workers,    \* workers: the worker tasks of all calls, with the page each opened
    store,      \* processor: the stored jobs, each with or without description and analysis
    loop        \* processor: where process_jobs_async is, and the batch it fetched

dbVars == <<rows, now, call, started, faults, lastDone>>
fpVars == <<fpBase, fpVar>>
scVars == <<handed, results>>
locVars == <<locInput, locOutput>>
salVars == <<salTokens, salText, salResult>>
roleVars == <<roleTitle, roleResult>>
pureVars == <<locVars, salVars, roleVars>>
embVars == <<embedding_model, role_embeddings, embCall>>
indeedVars == <<indeedCfg, indeedTasks, indeedOut>>
pageVars == <<pageCfg, pageRun, pageOut>>
workerVars == <<pjc, workers>>
procVars == <<store, loop>>
lateVars == <<embVars, indeedVars, pageVars, workerVars, procVars>>
vars == <<rows, now, call, started, faults, lastDone, fpBase, fpVar,
          handed, results, locInput, locOutput, salTokens, salText,
          salResult, roleTitle, roleResult, embedding_model,
          role_embeddings, embCall, indeedCfg, indeedTasks, indeedOut,
          pageCfg, pageRun, pageOut, pjc, workers, store, loop>>

----------------------------------------------------------------------------
(* Bounds *)

MaxCalls == 3
MaxFaults == 1
MaxPad == 1
MaxCollected == 2
MaxLocs == 3
MaxTokens == 3
MaxWords == 2

Procs == {1, 2}

----------------------------------------------------------------------------
(* Text helpers: Python str methods on sequences of characters *)

None == <<"None">>

\* the salary None, and a salary dict
NoSalary == [null |-> TRUE, annual_min |-> 0, annual_max |-> 0]

Salary(annual_min, annual_max) ==
    [null |-> FALSE, annual_min |-> annual_min, annual_max |-> annual_max]

Whitespace == {" ", "\t"}

Range(s) == {s[i] : i \in 1..Len(s)}

UpperCase ==
    << "A", "B", "C", "D", "E", "F", "G", "H", "I", "J", "K", "L", "M",
       "N", "O", "P", "Q", "R", "S", "T", "U", "V", "W", "X", "Y", "Z" >>

LowerCase ==
    << "a", "b", "c", "d", "e", "f", "g", "h", "i", "j", "k", "l", "m",
       "n", "o", "p", "q", "r", "s", "t", "u", "v", "w", "x", "y", "z" >>

UpperLetters == Range(UpperCase)

LowerLetters == Range(LowerCase)

Letters == UpperLetters \cup LowerLetters

Digits == {"0", "1", "2", "3", "4", "5", "6", "7", "8", "9"}

\* the place of a letter in the alphabet
Place(alphabet, c) == CHOOSE i \in 1..26 : alphabet[i] = c

LowerChar(c) ==
    IF c \in UpperLetters THEN LowerCase[Place(UpperCase, c)] ELSE c

UpperChar(c) ==
    IF c \in LowerLetters THEN UpperCase[Place(LowerCase, c)] ELSE c

\* str.lower()
Lower(s) == [i \in 1..Len(s) |-> LowerChar(s[i])]

RECURSIVE LStrip(_)
LStrip(s) == IF s # <<>> /\ Head(s) \in Whitespace THEN LStrip(Tail(s)) ELSE s

RECURSIVE RStrip(_)
RStrip(s) ==
    IF s # <<>> /\ s[Len(s)] \in Whitespace
    THEN RStrip(SubSeq(s, 1, Len(s) - 1))
    ELSE s

Strip(s) == RStrip(LStrip(s))

\* Python truthiness of a scalar: None and "" are falsy
Truthy(v) == v # None /\ v # <<>>

\* Python's  a or b
Or(a, b) == IF Truthy(a) THEN a ELSE b


----------------------------------------------------------------------------
(* JobDatabase._generate_fingerprint *)

\* a variant without .lower()
GenerateFingerprintNoLower(company, title) ==
    Strip(Or(company, <<>>)) \o <<"|">> \o Strip(Or(title, <<>>))

GenerateFingerprint(company, title) ==
    Strip(Lower(Or(company, <<>>))) \o <<"|">> \o Strip(Lower(Or(title, <<>>)))

----------------------------------------------------------------------------
(* FingerprintGenerator (aujobsscraper/models/fingerprint.py) *)

Punctuation == {".", ",", "|", "-", "&"}

\* the characters of \w
WordChars == Letters \cup Digits \cup {"_"}

IsWord(c) == c \in WordChars

\* a regular expression is a sequence of items: a character class taken
\* once, optionally ("?") or any number of times ("*")
Lit(c) == [cls |-> {c}, q |-> "one"]
Opt(c) == [cls |-> {c}, q |-> "opt"]
Star(C) == [cls |-> C, q |-> "star"]

Word(w) == [i \in 1..Len(w) |-> Lit(w[i])]

\* the suffixes list, each pattern after its leading \b
Suffixes ==
    << Word(<<"p", "t", "y">>) \o <<Opt("."), Star(Whitespace)>>
           \o Word(<<"l", "t", "d">>) \o <<Opt(".")>>,
       Word(<<"l", "i", "m", "i", "t", "e", "d">>),
       Word(<<"i", "n", "c">>) \o <<Opt(".")>>,
       Word(<<"c", "o", "r", "p">>) \o <<Opt(".")>>,
       Word(<<"l", "l", "c">>) \o <<Opt(".")>>,
       Word(<<"c", "o">>) \o <<Opt(".")>> >>

\* the index after the greedy match of items k.. of pat at s[i], 0 for none
\* (re.IGNORECASE: characters are compared in lower case)
RECURSIVE MatchEnd(_, _, _, _)
MatchEnd(pat, k, s, i) ==
    IF k > Len(pat) THEN i
    ELSE LET hit == i <= Len(s) /\ LowerChar(s[i]) \in pat[k].cls
             take == IF hit
                     THEN MatchEnd(pat, IF pat[k].q = "star" THEN k ELSE k + 1, s, i + 1)
                     ELSE 0
         IN  IF pat[k].q = "one" \/ take # 0 THEN take
             ELSE MatchEnd(pat, k + 1, s, i)

\* \b before s[i]
WordBoundary(s, i) ==
    (i <= Len(s) /\ IsWord(s[i])) # (i > 1 /\ IsWord(s[i - 1]))

\* re.sub(r'\b' + pat, '', s): the text left of i is done and gave acc
RECURSIVE ReSubDrop(_, _, _, _)
ReSubDrop(pat, s, i, acc) ==
    IF i > Len(s) THEN acc
    ELSE LET e == IF WordBoundary(s, i) THEN MatchEnd(pat, 1, s, i) ELSE 0
         IN  IF e > i THEN ReSubDrop(pat, s, e, acc)
             ELSE ReSubDrop(pat, s, i + 1, Append(acc, s[i]))

RECURSIVE RemoveSuffixes(_, _)
RemoveSuffixes(s, k) ==
    IF k > Len(Suffixes) THEN s
    ELSE RemoveSuffixes(ReSubDrop(Suffixes[k], s, 1, <<>>), k + 1)

\* re.sub(r'[^\w\s]', '', s)
RemovePunctuation(s) == SelectSeq(s, LAMBDA c : IsWord(c) \/ c \in Whitespace)

\* re.sub(r'\s+', ' ', s)
RECURSIVE CollapseWhitespace(_)
CollapseWhitespace(s) ==
    IF s = <<>> THEN <<>>
    ELSE IF Head(s) \in Whitespace
         THEN <<" ">> \o CollapseWhitespace(LStrip(s))
         ELSE <<Head(s)>> \o CollapseWhitespace(Tail(s))

\* FingerprintGenerator.normalize_text
NormalizeText(text) ==
    IF ~Truthy(text) THEN <<>>
    ELSE Strip(CollapseWhitespace(RemovePunctuation(
             RemoveSuffixes(Strip(Lower(text)), 1))))

\* hashlib.md5(...).hexdigest(), taken to be free of collisions
Md5(s) == <<"md5">> \o s

\* FingerprintGenerator.generate
Generate(components) ==
    Md5(NormalizeText(components.company) \o <<"|">>
        \o NormalizeText(components.job_title))

----------------------------------------------------------------------------
(* Inputs: the job_data dictionaries and update_duplicate_job arguments    *)
(* the callers are drawn from.  keys is the set of keys the dict holds.    *)

Sydney == [city |-> "Sydney", state |-> "NSW"]
Melbourne == [city |-> "Melbourne", state |-> "VIC"]

\* three (company, job_title) pairs; the first two differ only in letter
\* case and surrounding whitespace
IdentAcme == [company |-> <<"A", "c">>, job_title |-> <<"D", "v">>]
IdentAcmeVariant == [company |-> <<" ", "a", "c">>, job_title |-> <<"d", "V", " ">>]
IdentOther == [company |-> <<"A", "c">>, job_title |-> <<"Q">>]

ScalarKeys ==
    {"job_role", "description", "salary", "seniority", "posted_at",
     "closing_date", "llm_analysis"}

\* every optional field filled
ProfileFull ==
    [keys |-> ScalarKeys,
     job_role |-> <<"Data Scientist">>, description |-> <<"desc1">>,
     salary |-> <<"$100k">>, seniority |-> <<"Senior">>,
     posted_at |-> <<"2025-01-01">>, closing_date |-> <<"2025-02-01">>,
     llm_analysis |-> <<"analysis1">>]

\* empty description, null or missing optional fields, no job_role key
ProfileSparse ==
    [keys |-> {"description", "salary", "llm_analysis"},
     job_role |-> None, description |-> <<>>,
     salary |-> None, seniority |-> None,
     posted_at |-> None, closing_date |-> None,
     llm_analysis |-> None]

\* other values in some fields, nothing in the rest
ProfileOther ==
    [keys |-> ScalarKeys \ {"closing_date"},
     job_role |-> <<"Data Analyst">>, description |-> <<"desc2">>,
     salary |-> <<"$120k">>, seniority |-> None,
     posted_at |-> None, closing_date |-> None,
     llm_analysis |-> <<"analysis2">>]

SightingSeek ==
    [keys |-> {"locations", "platforms", "source_urls"},
     locations |-> <<Sydney>>, platforms |-> <<"seek">>,
     source_urls |-> <<"u1">>, platform |-> "", source_url |-> ""]

\* the legacy singular keys
SightingProsple ==
    [keys |-> {"locations", "platform", "source_url"},
     locations |-> <<Melbourne>>, platforms |-> <<>>,
     source_urls |-> <<>>, platform |-> "prosple", source_url |-> "u2"]

SightingBoth ==
    [keys |-> {"locations", "platforms", "source_urls"},
     locations |-> <<Sydney, Melbourne>>, platforms |-> <<"prosple", "seek">>,
     source_urls |-> <<"u1", "u2">>, platform |-> "", source_url |-> ""]

JobData(ident, prof, sight) ==
    [keys |-> {"company", "job_title"} \cup prof.keys \cup sight.keys,
     company |-> ident.company, job_title |-> ident.job_title,
     job_role |-> prof.job_role, description |-> prof.description,
     salary |-> prof.salary, seniority |-> prof.seniority,
     posted_at |-> prof.posted_at, closing_date |-> prof.closing_date,
     llm_analysis |-> prof.llm_analysis,
     locations |-> sight.locations, platforms |-> sight.platforms,
     source_urls |-> sight.source_urls,
     platform |-> sight.platform, source_url |-> sight.source_url]

JobInputs ==
    { JobData(IdentAcme, ProfileFull, SightingSeek),
      JobData(IdentAcmeVariant, ProfileSparse, SightingProsple),
      JobData(IdentAcmeVariant, ProfileOther, SightingBoth),
      JobData(IdentOther, ProfileOther, SightingProsple) }

\* update_duplicate_job arguments: source_url / platform are a str or a list
DuplicateArgs ==
    { [locations |-> <<Melbourne>>,
       source_url |-> [str |-> TRUE, v |-> "u2"],
       platform |-> [str |-> TRUE, v |-> "prosple"]],
      [locations |-> <<Sydney, Melbourne, Sydney>>,
       source_url |-> [str |-> FALSE, v |-> <<"u1", "u2">>],
       platform |-> [str |-> FALSE, v |-> <<>>]] }

\* [x] if isinstance(x, str) else (x or [])
AsList(arg) == IF arg.str THEN <<arg.v>> ELSE arg.v

\* dict.get(key, default)
Get(d, k, default) == IF k \in d.keys THEN d[k] ELSE default

\* upsert_job, step 1: the fingerprint of a job_data dict
JobFingerprint(job_data) ==
    GenerateFingerprint(Get(job_data, "company", <<>>),
                        Get(job_data, "job_title", <<>>))

\* FingerprintGenerator.from_job_data and generate_from_job
GenerateFromJob(job_data) ==
    Generate([company |-> Get(job_data, "company", <<>>),
              job_title |-> Get(job_data, "job_title", <<>>)])

----------------------------------------------------------------------------
(* JobDatabase._prepare_list_field and _prepare_job_data *)

PrepareListField(data, plural_key, singular_key) ==
    LET value == Get(data, plural_key, <<>>)
    IN  IF Len(value) = 0 /\ singular_key \in data.keys
        THEN <<data[singular_key]>>
        ELSE value

PrepareJobData(job_data) ==
    [job_title |-> Get(job_data, "job_title", <<>>),
     job_role |-> Get(job_data, "job_role", <<"Other">>),
     company |-> Get(job_data, "company", <<>>),
     description |-> Get(job_data, "description", <<>>),
     locations |-> PrepareListField(job_data, "locations", "location"),
     platforms |-> PrepareListField(job_data, "platforms", "platform"),
     source_urls |-> PrepareListField(job_data, "source_urls", "source_url"),
     salary |-> Get(job_data, "salary", None),
     seniority |-> Get(job_data, "seniority", None),
     posted_at |-> Get(job_data, "posted_at", None),
     closing_date |-> Get(job_data, "closing_date", None),
     llm_analysis |-> Get(job_data, "llm_analysis", None)]

----------------------------------------------------------------------------
(* The list merges *)

LocKey(loc) == <<loc.city, loc.state>>

RECURSIVE UniqueLocs(_, _, _)
UniqueLocs(combined, seen, unique_locs) ==
    IF combined = <<>> THEN unique_locs
    ELSE LET loc == Head(combined)
         IN  IF LocKey(loc) \notin seen
             THEN UniqueLocs(Tail(combined), seen \cup {LocKey(loc)},
                             Append(unique_locs, loc))
             ELSE UniqueLocs(Tail(combined), seen, unique_locs)

\* JobDatabase._merge_locations
MergeLocations(current, new) == UniqueLocs(current \o new, {}, <<>>)

\* every list holding each element of S once: list(set(...)) fixes no order
Orderings(S) ==
    {s \in [1..Cardinality(S) -> S] : {s[i] : i \in 1..Cardinality(S)} = S}

\* a variant without the set(): current + new
MergeUniqueValuesConcat(current, new) == {current \o new}

\* JobDatabase._merge_unique_values: the lists list(set(current + new)) can be
MergeUniqueValues(current, new) == Orderings(Range(current \o new))

----------------------------------------------------------------------------
(* The table and its round trips *)

ScalarFields ==
    {"job_title", "job_role", "company", "description",
     "salary", "seniority", "posted_at", "closing_date"}

\* a variant that also rewrites the fingerprint from the new company and title
ScalarUpdatesRefingerprint(new_data, existing) ==
    [f \in ScalarFields \cup {"fingerprint"} |->
        IF f = "fingerprint"
        THEN new_data.company \o <<"|">> \o new_data.job_title
        ELSE Or(new_data[f], existing[f])]

\* the dict _update_scalar_fields sends to the table
ScalarUpdates(new_data, existing) ==
    [f \in ScalarFields |-> Or(new_data[f], existing[f])]

\* a variant without the .eq("id", job_id) filter
DbUpdateAllRows(table, job_id, update_data) ==
    [i \in 1..Len(table) |->
        [k \in DOMAIN table[i] |->
            IF k \in DOMAIN update_data THEN update_data[k] ELSE table[i][k]]]

\* table.update(update_data).eq("id", job_id).execute()
DbUpdate(table, job_id, update_data) ==
    [i \in 1..Len(table) |->
        IF table[i].id = job_id
        THEN [k \in DOMAIN table[i] |->
                 IF k \in DOMAIN update_data THEN update_data[k] ELSE table[i][k]]
        ELSE table[i]]

\* table.select(...).eq("id", job_id).execute().data
SelectById(table, job_id) ==
    {i \in 1..Len(table) : table[i].id = job_id}

\* the row insert stores for insert_data, with the id the table assigns
NewRow(table, data, fingerprint, clock) ==
    [id |-> Len(table) + 1,
     fingerprint |-> fingerprint,
     created_at |-> clock,
     updated_at |-> clock,
     job_title |-> data.job_title, job_role |-> data.job_role,
     company |-> data.company, description |-> data.description,
     salary |-> data.salary, seniority |-> data.seniority,
     posted_at |-> data.posted_at, closing_date |-> data.closing_date,
     llm_analysis |-> data.llm_analysis,
     locations |-> data.locations, platforms |-> data.platforms,
     source_urls |-> data.source_urls]

\* a variant that never finds a row
FindByFingerprintNever(table, fingerprint, ok) == {<<>>}

\* a variant without the .eq("fingerprint", fingerprint) filter
FindByFingerprintAnyRow(table, fingerprint, ok) ==
    IF ok /\ table # <<>> THEN {<<table[i]>> : i \in 1..Len(table)} ELSE {<<>>}

\* JobDatabase._find_by_fingerprint: the values it can return, <<>> for None.
\* The select has no ORDER BY, so data[0] is any matching row; an exception
\* in the round trip is logged and None returned.
FindByFingerprint(table, fingerprint, ok) ==
    LET data == {i \in 1..Len(table) : table[i].fingerprint = fingerprint}
    IN  IF ok /\ data # {} THEN {<<table[i]>> : i \in data} ELSE {<<>>}

----------------------------------------------------------------------------
(* Callers.  A call is a sequence of round trips to the table; between two *)
(* round trips of one call the other caller may run.                       *)

NoLists == [locations |-> <<>>, source_urls |-> <<>>, platforms |-> <<>>]

NoResult == [status |-> "none", id |-> 0]

IdleCall ==
    [pc |-> "idle", kind |-> "none", data |-> NoLists,
     fingerprint |-> <<>>, job_id |-> 0, existing |-> <<>>, fetched |-> <<>>,
     result |-> NoResult, faulted |-> FALSE]

NoCall == [kind |-> "none", data |-> NoLists, rows |-> <<>>, streak |-> 0]

\* the outcomes of one round trip: TRUE it succeeds, FALSE it raises
DbOutcomes == IF faults > 0 THEN {TRUE, FALSE} ELSE {TRUE}

Spend(ok) == faults' = IF ok THEN faults ELSE faults - 1

Active(p) == call[p].pc \notin {"idle", "done"}

\* what a completing call leaves in the history variable
Done(p, table) ==
    IF call[p].kind = "upsert"
    THEN [kind |-> "upsert", data |-> call[p].data, rows |-> table,
          streak |-> IF lastDone.kind = "upsert" /\ lastDone.data = call[p].data
                     THEN lastDone.streak + 1 ELSE 1]
    ELSE NoCall

\* upsert_job, up to its first round trip (lines 27-33)
BeginUpsert(p, job_data) ==
    /\ ~Active(p)
    /\ started < MaxCalls
    /\ started' = started + 1
    /\ call' = [call EXCEPT ![p] =
                  [IdleCall EXCEPT
                     !.pc = "find", !.kind = "upsert",
                     !.fingerprint = JobFingerprint(job_data),
                     !.data = PrepareJobData(job_data)]]
    /\ UNCHANGED <<rows, now, faults, lastDone>>

\* upsert_job called directly on the database object
UpsertJob(p, job_data) ==
    /\ BeginUpsert(p, job_data)
    /\ UNCHANGED <<fpVars, scVars, pureVars, lateVars>>

\* existing = self._find_by_fingerprint(fingerprint) and the branch on it
FindExisting(p) ==
    /\ call[p].pc = "find"
    /\ \E ok \in DbOutcomes :
         /\ Spend(ok)
         /\ \E existing \in FindByFingerprint(rows, call[p].fingerprint, ok) :
              call' = [call EXCEPT
                         ![p].existing = existing,
                         ![p].job_id = IF Len(existing) > 0 THEN existing[1].id ELSE 0,
                         ![p].pc = IF Len(existing) > 0 THEN "fetch" ELSE "insert",
                         ![p].faulted = @ \/ ~ok]
    /\ UNCHANGED <<rows, now, started, lastDone, fpVars, scVars, pureVars, lateVars>>

\* _insert_new_job: the insert either stores the row or raises
InsertNewJob(p) ==
    /\ call[p].pc = "insert"
    /\ \E ok \in DbOutcomes :
         /\ Spend(ok)
         /\ IF ok
            THEN /\ rows' = Append(rows, NewRow(rows, call[p].data,
                                                call[p].fingerprint, now))
                 /\ now' = now + 1
                 /\ call' = [call EXCEPT
                               ![p].pc = "done", ![p].existing = <<>>, ![p].fetched = <<>>,
                               ![p].result = [status |-> "inserted",
                                              id |-> Len(rows) + 1]]
            ELSE /\ UNCHANGED <<rows, now>>
                 /\ call' = [call EXCEPT
                               ![p].pc = "done", ![p].existing = <<>>, ![p].fetched = <<>>, ![p].faulted = TRUE,
                               ![p].result = [status |-> "raised", id |-> 0]]
    /\ lastDone' = Done(p, rows')
    /\ UNCHANGED <<started, fpVars, scVars, pureVars, lateVars>>

\* update_duplicate_job called directly, up to its first round trip
UpdateDuplicateJob(p, job_id, args) ==
    /\ ~Active(p)
    /\ started < MaxCalls
    /\ started' = started + 1
    /\ call' = [call EXCEPT ![p] =
                  [IdleCall EXCEPT
                     !.pc = "fetch", !.kind = "dup", !.job_id = job_id,
                     !.data = [locations |-> args.locations,
                               source_urls |-> AsList(args.source_url),
                               platforms |-> AsList(args.platform)]]]
    /\ UNCHANGED <<rows, now, faults, lastDone, fpVars, scVars, pureVars, lateVars>>

\* where a call goes when update_duplicate_job returns: upsert_job ignores
\* the returned dict and goes on to _update_scalar_fields
AfterDuplicate(p, status) ==
    IF call[p].kind = "upsert"
    THEN [call EXCEPT ![p].pc = "scalar"]
    ELSE [call EXCEPT ![p].pc = "done", ![p].existing = <<>>, ![p].fetched = <<>>,
                      ![p].result = [status |-> status, id |-> call[p].job_id]]

\* update_duplicate_job: the select of the three list columns (lines 143-152)
FetchLists(p) ==
    /\ call[p].pc = "fetch"
    /\ \E ok \in DbOutcomes :
         /\ Spend(ok)
         /\ LET data == SelectById(rows, call[p].job_id)
            IN  IF ok /\ data # {}
                THEN \E i \in data :
                       /\ call' = [call EXCEPT
                                     ![p].pc = "write",
                                     ![p].fetched =
                                        <<[locations |-> rows[i].locations,
                                           source_urls |-> rows[i].source_urls,
                                           platforms |-> rows[i].platforms]>>]
                       /\ lastDone' = lastDone
                ELSE /\ call' = [AfterDuplicate(p, "error") EXCEPT
                                   ![p].faulted = @ \/ ~ok]
                     /\ lastDone' = IF call[p].kind = "dup" THEN Done(p, rows)
                                    ELSE lastDone
    /\ UNCHANGED <<rows, now, started, fpVars, scVars, pureVars, lateVars>>

\* update_duplicate_job: the merges and the update (lines 155-192)
WriteLists(p) ==
    /\ call[p].pc = "write"
    /\ \E ok \in DbOutcomes :
         /\ Spend(ok)
         /\ IF ok
            THEN LET existing == call[p].fetched[1]
                     merged_locations ==
                         MergeLocations(existing.locations, call[p].data.locations)
                 IN  \E merged_urls \in MergeUniqueValues(existing.source_urls,
                                                          call[p].data.source_urls),
                        merged_platforms \in MergeUniqueValues(existing.platforms,
                                                               call[p].data.platforms) :
                       /\ rows' = DbUpdate(rows, call[p].job_id,
                                           [locations |-> merged_locations,
                                            source_urls |-> merged_urls,
                                            platforms |-> merged_platforms,
                                            updated_at |-> now])
                       /\ now' = now + 1
                       /\ call' = AfterDuplicate(p, "updated_duplicate")
            ELSE /\ UNCHANGED <<rows, now>>
                 /\ call' = [AfterDuplicate(p, "error") EXCEPT ![p].faulted = TRUE]
    /\ lastDone' = IF call[p].kind = "dup" THEN Done(p, rows') ELSE lastDone
    /\ UNCHANGED <<started, fpVars, scVars, pureVars, lateVars>>

\* _update_scalar_fields and the return of _update_existing_job
UpdateScalarFields(p) ==
    /\ call[p].pc = "scalar"
    /\ \E ok \in DbOutcomes :
         /\ Spend(ok)
         /\ IF ok
            THEN /\ rows' = DbUpdate(rows, call[p].job_id,
                                     ScalarUpdates(call[p].data, call[p].existing[1]))
                 /\ call' = [call EXCEPT
                               ![p].pc = "done", ![p].existing = <<>>, ![p].fetched = <<>>,
                               ![p].result = [status |-> "updated",
                                              id |-> call[p].job_id]]
            ELSE /\ UNCHANGED rows
                 /\ call' = [call EXCEPT
                               ![p].pc = "done", ![p].existing = <<>>, ![p].fetched = <<>>, ![p].faulted = TRUE,
                               ![p].result = [status |-> "raised", id |-> 0]]
    /\ lastDone' = Done(p, rows')
    /\ UNCHANGED <<now, started, fpVars, scVars, pureVars, lateVars>>

----------------------------------------------------------------------------
(* Specifications of the table *)

InitDb ==
    /\ rows = <<>>
    /\ now = 1
    /\ call = [p \in Procs |-> IdleCall]
    /\ started = 0
    /\ lastDone = NoCall

\* the fingerprint study is at rest while the table is exercised
InitFpIdle ==
    /\ fpBase = JobData(IdentAcme, ProfileFull, SightingSeek)
    /\ fpVar = fpBase

\* the scrapers are at rest: nothing saved, nothing collected
InitScIdle ==
    /\ handed = <<>>
    /\ results = <<>>

\* the normalizers are at rest on their empty inputs
InitPureIdle ==
    /\ locInput = <<>> /\ locOutput = [aus |-> <<>>, jobly |-> <<>>]
    /\ salTokens = <<>> /\ salText = <<>>
    /\ salResult = [parser |-> NoSalary, normalizer |-> NoSalary]
    /\ roleTitle = <<>> /\ roleResult = [aus |-> "Specialized", jobly |-> "Specialized"]

\* no extract_job_role call has reached the fallback
InitEmbIdle ==
    /\ embedding_model = [impl \in {"aus", "jobly"} |-> "None"]
    /\ role_embeddings = [impl \in {"aus", "jobly"} |-> "None"]
    /\ embCall = [impl |-> "none", fails |-> {}, raised |-> "none", best |-> "Specialized"]

\* no IndeedScraper has been constructed
InitIndeedIdle ==
    /\ indeedCfg = [search_terms |-> 0, term_concurrency |-> 1,
                    results_wanted_total |-> [none |-> TRUE, n |-> 0],
                    skip_urls |-> {}]
    /\ indeedTasks = <<>>
    /\ indeedOut = [status |-> "idle", results |-> <<>>]

\* no page-based scraper has been started
InitPageIdle ==
    /\ pageCfg = [scraper |-> "seek", keywords |-> 0, initial_run |-> FALSE,
                  max_pages |-> 0, prosple_regular_max_pages |-> 0,
                  consumer |-> "await", skip_urls |-> {}]
    /\ pageRun = [status |-> "idle", keyword |-> 0, page_count |-> 0,
                  requests |-> <<>>, last |-> <<>>, seen_urls |-> {},
                  _results |-> <<>>]
    /\ pageOut = [pages |-> <<>>, received |-> <<>>]

\* process_jobs_concurrently has not been called
InitWorkersIdle ==
    /\ pjc = [status |-> "idle", id |-> 0, concurrency |-> 1]
    /\ workers = <<>>

\* run_processor has not been started
InitProcIdle ==
    /\ store = <<>>
    /\ loop = [pc |-> "idle", batch_size |-> 1, jobs |-> {}]

InitLateIdle == InitEmbIdle /\ InitIndeedIdle /\ InitPageIdle /\ InitWorkersIdle /\ InitProcIdle

\* the store, the scrapers' records and the pure functions at rest
InitEarlyIdle == InitDb /\ faults = 0 /\ InitFpIdle /\ InitScIdle /\ InitPureIdle

\* the ids update_duplicate_job is called with: those of the rows and one
\* that no row has
JobIds == 1..(Len(rows) + 1)

\* callers run concurrently; the persistence layer does not fail
Init ==
    InitDb /\ faults = 0 /\ InitFpIdle /\ InitScIdle /\ InitPureIdle /\ InitLateIdle

Next ==
    \E p \in Procs :
        \/ \E job_data \in JobInputs : UpsertJob(p, job_data)
        \/ \E job_id \in JobIds, args \in DuplicateArgs :
             UpdateDuplicateJob(p, job_id, args)
        \/ FindExisting(p)
        \/ InsertNewJob(p)
        \/ FetchLists(p)
        \/ WriteLists(p)
        \/ UpdateScalarFields(p)

Spec == Init /\ [][Next]_vars

\* callers run concurrently and round trips may raise
InitFault ==
    /\ InitDb /\ faults = MaxFaults /\ InitFpIdle /\ InitScIdle /\ InitPureIdle
    /\ InitLateIdle

SpecFault == InitFault /\ [][Next]_vars

\* calls do not overlap: a call begins only when no call is in progress
Quiet == \A q \in Procs : ~Active(q)

NextSeq ==
    \E p \in Procs :
        \/ \E job_data \in JobInputs : Quiet /\ UpsertJob(p, job_data)
        \/ \E job_id \in JobIds, args \in DuplicateArgs :
             Quiet /\ UpdateDuplicateJob(p, job_id, args)
        \/ FindExisting(p)
        \/ InsertNewJob(p)
        \/ FetchLists(p)
        \/ WriteLists(p)
        \/ UpdateScalarFields(p)

SpecSeq == Init /\ [][NextSeq]_vars

----------------------------------------------------------------------------
(* Properties of upsert_job and update_duplicate_job *)

RowIds == 1..Len(rows)

\* caller p takes the last step of its call
Completes(p) == Active(p) /\ call'[p].pc = "done"

Succeeded(p) ==
    /\ call[p].pc = "done"
    /\ call[p].result.status \in {"updated", "updated_duplicate"}

LocKeys(locs) == {LocKey(locs[i]) : i \in 1..Len(locs)}

NoRepeat(s) == \A i, j \in 1..Len(s) : s[i] = s[j] => i = j

NoRepeatedKey(locs) ==
    \A i, j \in 1..Len(locs) : LocKey(locs[i]) = LocKey(locs[j]) => i = j

ListFields == {"locations", "source_urls", "platforms"}

\* C1: once every call has completed, no two rows of job_postings have the
\* same fingerprint, whatever the interleaving of the upsert_job calls.
C1_OneRowPerFingerprint ==
    Quiet =>
        \A i, j \in RowIds :
            rows[i].fingerprint = rows[j].fingerprint => i = j

\* C2: once every call has completed, the row a merge was applied to holds
\* every location, platform and source URL the merging call supplied.
C2_NoSightingLost ==
    Quiet =>
        \A p \in Procs :
            Succeeded(p) /\ call[p].result.id \in RowIds =>
                LET row == rows[call[p].result.id]
                IN  /\ LocKeys(call[p].data.locations) \subseteq LocKeys(row.locations)
                    /\ Range(call[p].data.platforms) \subseteq Range(row.platforms)
                    /\ Range(call[p].data.source_urls) \subseteq Range(row.source_urls)

\* C3: when calls do not overlap, an upsert_job call whose fingerprint matches
\* no stored row adds exactly one row and returns "inserted"; one whose
\* fingerprint matches a stored row adds none and returns "updated" with the
\* id of a row holding that fingerprint.  No other step adds or removes a row.
C3_Step(p) ==
    LET matching == {i \in RowIds : rows[i].fingerprint = call[p].fingerprint}
    IN  IF Completes(p) /\ call[p].kind = "upsert"
        THEN IF matching = {}
             THEN /\ Len(rows') = Len(rows) + 1
                  /\ call'[p].result.status = "inserted"
                  /\ call'[p].result.id = Len(rows')
                  /\ rows'[Len(rows')].fingerprint = call[p].fingerprint
             ELSE /\ Len(rows') = Len(rows)
                  /\ call'[p].result.status = "updated"
                  /\ call'[p].result.id \in matching
        ELSE Active(p) => Len(rows') = Len(rows)

C3_InsertOrUpdate ==
    [][(\A p \in Procs : C3_Step(p)) /\ (Quiet => Len(rows') = Len(rows))]_vars

C3_Witness ==
    \E p \in Procs :
        /\ call[p].pc = "done"
        /\ call[p].result.status = "updated"
        /\ Len(rows) = 2

\* C4: the update of the list merge leaves the row with the union of its old
\* and the new locations, no (city, state) pair twice, and with the union of
\* its old and the new platforms and source URLs, no string twice.
C4_Step(p) ==
    call[p].pc = "write" /\ rows' # rows =>
        LET old == rows[call[p].job_id]
            new == call[p].data
            row == rows'[call[p].job_id]
        IN  /\ LocKeys(row.locations) = LocKeys(old.locations) \cup LocKeys(new.locations)
            /\ Range(row.locations) \subseteq Range(old.locations) \cup Range(new.locations)
            /\ NoRepeatedKey(row.locations)
            /\ Range(row.platforms) = Range(old.platforms) \cup Range(new.platforms)
            /\ NoRepeat(row.platforms)
            /\ Range(row.source_urls) = Range(old.source_urls) \cup Range(new.source_urls)
            /\ NoRepeat(row.source_urls)

C4_MergedListsAreUnions == [][\A p \in Procs : C4_Step(p)]_vars

C4_Witness ==
    \E p \in Procs :
        /\ Succeeded(p)
        /\ call[p].result.id \in RowIds
        /\ Len(rows[call[p].result.id].locations) = 2
        /\ Len(rows[call[p].result.id].source_urls) = 2
        /\ Len(rows[call[p].result.id].platforms) = 2

\* C5: when upsert_job merges a candidate into a row, every non-list field,
\* llm_analysis included, ends with the candidate's value if that is
\* non-empty and with the row's previous value otherwise.
C5_Step(p) ==
    call[p].pc = "scalar" /\ call'[p].result.status = "updated" =>
        \A f \in ScalarFields \cup {"llm_analysis"} :
            rows'[call[p].job_id][f] = Or(call[p].data[f], rows[call[p].job_id][f])

C5_ScalarsPreferCandidate == [][\A p \in Procs : C5_Step(p)]_vars

\* C6: an upsert_job call during which a round trip to the table raised ends
\* in an explicit failure, not in a status of "inserted" or "updated".
C6_FailuresSurface ==
    \A p \in Procs :
        call[p].pc = "done" /\ call[p].kind = "upsert" /\ call[p].faulted =>
            call[p].result.status = "raised"

\* C7: no step removes a row or changes a row's id, fingerprint or created_at.
C7_IdentityKept ==
    [][/\ Len(rows') >= Len(rows)
       /\ \A i \in RowIds :
            /\ rows'[i].id = rows[i].id
            /\ rows'[i].fingerprint = rows[i].fingerprint
            /\ rows'[i].created_at = rows[i].created_at]_vars

C7_Witness ==
    \E p \in Procs :
        /\ call[p].pc = "done"
        /\ call[p].result.status = "updated"
        /\ \E i \in RowIds :
             /\ i = call[p].result.id
             /\ rows[i].updated_at > rows[i].created_at
             /\ rows[i].job_title = call[p].data.job_title
             /\ Strip(rows[i].job_title) # rows[i].job_title

\* the tables agree up to updated_at and the order and repetition of lists
SameStore(a, b) ==
    /\ Len(a) = Len(b)
    /\ \A i \in 1..Len(a) :
         /\ \A f \in DOMAIN a[i] \ (ListFields \cup {"updated_at"}) : a[i][f] = b[i][f]
         /\ \A f \in ListFields : Range(a[i][f]) = Range(b[i][f])

\* C8: an upsert_job call that directly follows a completed upsert_job call
\* with the same candidate leaves the table as that call left it, up to
\* updated_at and the order of the lists.
C8_Step(p) ==
    /\ Completes(p)
    /\ call[p].kind = "upsert"
    /\ lastDone.kind = "upsert"
    /\ lastDone.data = call[p].data
    => SameStore(lastDone.rows, rows')

C8_UpsertIdempotent == [][\A p \in Procs : C8_Step(p)]_vars

C8_Witness ==
    /\ lastDone.kind = "upsert"
    /\ lastDone.streak = 2
    /\ Len(lastDone.rows) = 2

\* C9: update_duplicate_job on an existing row changes only that row's
\* locations, source_urls, platforms and updated_at and returns
\* "updated_duplicate"; on an id no row has it returns "error" and changes
\* nothing.
C9_Step(p) ==
    Active(p) /\ call[p].kind = "dup" =>
        /\ Len(rows') = Len(rows)
        /\ \A i \in RowIds :
             \A f \in DOMAIN rows[i] :
                 rows'[i][f] # rows[i][f] =>
                     /\ i = call[p].job_id
                     /\ f \in ListFields \cup {"updated_at"}
        /\ Completes(p) =>
             /\ call'[p].result.id = call[p].job_id
             /\ IF call[p].job_id \in {rows[i].id : i \in RowIds}
                THEN call'[p].result.status = "updated_duplicate"
                ELSE call'[p].result.status = "error" /\ rows' = rows

C9_DuplicateUpdateFrame == [][\A p \in Procs : C9_Step(p)]_vars

C9_Witness ==
    \E p \in Procs :
        /\ call[p].pc = "done"
        /\ call[p].result.status = "updated_duplicate"
        /\ call[p].result.id = 1
        /\ Len(rows) = 2
        /\ rows[1].updated_at > rows[1].created_at

----------------------------------------------------------------------------
(* The fingerprint functions on their own: fpBase is a posting, fpVar a    *)
(* posting reached from it by changing the case of letters of company or   *)
(* job_title, by adding or removing whitespace at their ends, and by       *)
(* replacing every other field.                                            *)

FpCompanies ==
    { <<>>, <<"A", "c">>, <<"a", " ", "c", "o", ".">> }

FpTitles ==
    { <<"q", " ", "D">>, <<"C", "o">> }

TextKeys == {"company", "job_title"}

ToggleChar(c) == IF LowerChar(c) # c THEN LowerChar(c) ELSE UpperChar(c)

\* whitespace at the two ends of s
Padding(s) == Len(s) - Len(Strip(s))

InitFp ==
    /\ InitDb
    /\ faults = 0
    /\ InitScIdle
    /\ InitPureIdle
    /\ InitLateIdle
    /\ \E c \in FpCompanies, t \in FpTitles :
         fpBase = JobData([company |-> c, job_title |-> t],
                          ProfileFull, SightingSeek)
    /\ fpVar = fpBase

FpToggleCase(k, i) ==
    /\ i \in 1..Len(fpVar[k])
    /\ fpVar' = [fpVar EXCEPT ![k][i] = ToggleChar(@)]
    /\ UNCHANGED <<fpBase, dbVars, scVars, pureVars, lateVars>>

FpPad(k, w, left) ==
    /\ Padding(fpVar[k]) < Padding(fpBase[k]) + MaxPad
    /\ fpVar' = [fpVar EXCEPT ![k] = IF left THEN <<w>> \o @ ELSE Append(@, w)]
    /\ UNCHANGED <<fpBase, dbVars, scVars, pureVars, lateVars>>

FpChangeOther(prof, sight) ==
    /\ fpVar' = JobData([company |-> fpVar.company, job_title |-> fpVar.job_title],
                        prof, sight)
    /\ UNCHANGED <<fpBase, dbVars, scVars, pureVars, lateVars>>

NextFp ==
    \/ \E k \in TextKeys, i \in 1..5 : FpToggleCase(k, i)
    \/ \E k \in TextKeys, w \in Whitespace, left \in BOOLEAN : FpPad(k, w, left)
    \/ \E prof \in {ProfileFull, ProfileSparse},
          sight \in {SightingSeek, SightingProsple} : FpChangeOther(prof, sight)

SpecFp == InitFp /\ [][NextFp]_vars

\* C10: postings whose company and job_title agree up to letter case and
\* surrounding whitespace have the same fingerprint, under both
\* JobDatabase._generate_fingerprint and FingerprintGenerator.generate,
\* whatever their other fields hold.
C10_FingerprintStable ==
    /\ JobFingerprint(fpVar) = JobFingerprint(fpBase)
    /\ GenerateFromJob(fpVar) = GenerateFromJob(fpBase)

C10_Witness ==
    /\ fpVar.company # fpBase.company
    /\ Len(fpVar.company) > Len(fpBase.company)
    /\ \E i \in 1..Len(fpVar.job_title) :
         i <= Len(fpBase.job_title) /\ fpVar.job_title[i] # fpBase.job_title[i]
    /\ fpVar.platforms # fpBase.platforms
    /\ fpVar.llm_analysis # fpBase.llm_analysis

----------------------------------------------------------------------------
(* Scrapers: JobPosting.validate, jobly BaseScraper.save_job and           *)
(* aujobsscraper BaseScraper._collect_job.  A posting is a job_data record;*)
(* its description is text.                                                *)

DescGood == <<"d", "a", "t", "a", " ", "r", "o", "l", "e", "s">>
DescBad == <<"b", "a", "d">>
\* eleven characters of which three are left by strip()
DescPadded == <<" ", " ", " ", " ", "b", "a", "d", " ", " ", " ", "\t">>

UnknownTitle == <<"Unknown Title">>
UnknownCompany == <<"Unknown Company">>

\* `not self.description or len(self.description.strip()) < 10`
DescriptionTooShort(description) ==
    ~Truthy(description) \/ Len(Strip(description)) < 10

\* jobly JobPosting.validate: the checks that fail
ValidateJobly(jp) ==
    {e \in {"job_title", "job_role", "company", "description",
            "locations", "source_urls", "platforms"} :
        CASE e = "job_title" -> ~Truthy(jp.job_title) \/ jp.job_title = UnknownTitle
          [] e = "job_role" -> ~Truthy(jp.job_role)
          [] e = "company" -> ~Truthy(jp.company) \/ jp.company = UnknownCompany
          [] e = "description" -> DescriptionTooShort(jp.description)
          [] OTHER -> jp[e] = <<>>}

\* aujobsscraper JobPosting.validate: the checks that fail
ValidateAus(jp) ==
    {e \in {"description", "locations", "source_urls", "platforms"} :
        IF e = "description" THEN DescriptionTooShort(jp.description)
        ELSE jp[e] = <<>>}

\* a posting as a scraper builds it
Scraped(description, locations, source_urls, platforms) ==
    JobData(IdentAcme,
            [ProfileFull EXCEPT !.description = description, !.keys = ScalarKeys],
            [SightingSeek EXCEPT !.locations = locations,
                                 !.source_urls = source_urls,
                                 !.platforms = platforms])

\* what the scrapers build: one sound posting and postings that each fail
\* one check
ScrapedPostings ==
    { Scraped(DescGood, <<Sydney>>, <<"u1">>, <<"seek">>),
      Scraped(DescBad, <<Sydney>>, <<"u1">>, <<"seek">>),
      Scraped(DescPadded, <<Melbourne>>, <<"u2">>, <<"seek">>),
      Scraped(DescGood, <<>>, <<"u1">>, <<"seek">>),
      Scraped(DescGood, <<Sydney>>, <<>>, <<"seek">>),
      Scraped(DescGood, <<Melbourne>>, <<"u2">>, <<>>) }

\* save_job's argument: a JobPosting object, or the legacy dictionary the
\* prosple and gradconnection scrapers build, with or without "platforms"
SaveJobArgs ==
    {[typed |-> TRUE, d |-> jp] : jp \in ScrapedPostings}
    \cup {[typed |-> FALSE, d |-> jp] :
            jp \in { Scraped(DescBad, <<Sydney>>, <<"u1">>, <<"seek">>),
                     Scraped(DescGood, <<>>, <<"u1">>, <<"seek">>) }}
    \cup {[typed |-> FALSE,
           d |-> [jp EXCEPT !.keys = @ \ {"platforms"}, !.platforms = <<>>]] :
             jp \in {Scraped(DescGood, <<Sydney>>, <<"u1">>, <<"seek">>)}}

\* save_job lines 150-154: make sure the scraper's platform is listed
EnsurePlatform(data_dict, platform) ==
    IF "platforms" \notin data_dict.keys
    THEN [data_dict EXCEPT !.keys = @ \cup {"platforms"},
                           !.platforms = <<platform>>]
    ELSE IF platform \notin Range(data_dict.platforms)
         THEN [data_dict EXCEPT !.platforms = Append(@, platform)]
         ELSE data_dict

\* save_job: validate a JobPosting object, then hand the dict to upsert_job
SaveJob(p, platform, job_data) ==
    /\ Quiet
    /\ started < MaxCalls
    /\ IF job_data.typed /\ ValidateJobly(job_data.d) # {}
       THEN UNCHANGED vars
       ELSE LET data_dict == EnsurePlatform(job_data.d, platform)
            IN  /\ handed' = Append(handed, data_dict)
                /\ BeginUpsert(p, data_dict)
                /\ UNCHANGED <<results, fpVars, pureVars, lateVars>>

\* _collect_job: validate, then append to self._results
CollectJob(job_posting) ==
    /\ Len(results) < MaxCollected
    /\ IF ValidateAus(job_posting) # {}
       THEN UNCHANGED vars
       ELSE /\ results' = Append(results, job_posting)
            /\ UNCHANGED <<handed, dbVars, fpVars, pureVars, lateVars>>

\* each scraper process is the scraper of one platform (self.platform)
Platform(p) == IF p = 1 THEN "seek" ELSE "prosple"

NextScrape ==
    \/ \E p \in Procs, job_data \in SaveJobArgs :
         SaveJob(p, Platform(p), job_data)
    \/ \E job_posting \in ScrapedPostings : CollectJob(job_posting)
    \/ \E p \in Procs : FindExisting(p)
    \/ \E p \in Procs : InsertNewJob(p)
    \/ \E p \in Procs : FetchLists(p)
    \/ \E p \in Procs : WriteLists(p)
    \/ \E p \in Procs : UpdateScalarFields(p)

SpecScrape == Init /\ [][NextScrape]_vars

\* a record that passes the checks of the data model
ValidRecord(d) ==
    /\ d.locations # <<>>
    /\ d.source_urls # <<>>
    /\ d.platforms # <<>>
    /\ Len(Strip(d.description)) >= 10

\* C11: every record save_job has passed to upsert_job, every posting in
\* _results and every stored row has non-empty locations, source_urls and
\* platforms and a description of at least 10 characters after trimming.
C11_ValidatedBeforeStored ==
    /\ \A i \in 1..Len(handed) : ValidRecord(handed[i])
    /\ \A i \in 1..Len(results) : ValidRecord(results[i])
    /\ \A i \in RowIds : ValidRecord(rows[i])

\* the part of C11 that _collect_job keeps
CollectedAreValid == \A i \in 1..Len(results) : ValidRecord(results[i])

\* the part of C11 that save_job keeps for JobPosting objects: a dropped
\* object is never handed on
HandedTypedAreValid ==
    [][\A p \in Procs, job_data \in SaveJobArgs :
         (SaveJob(p, Platform(p), job_data) /\ job_data.typed /\ handed' # handed)
            => ValidRecord(handed'[Len(handed')])]_vars

----------------------------------------------------------------------------
(* normalize_locations (aujobsscraper/utils/scraper_utils.py and           *)
(* jobly/utils/scraper_utils.py) over the gazetteer of utils/constants.py. *)
(* A location string is text; a normalized location is a record of two     *)
(* texts, city and state.                                                  *)

\* CITY_TO_STATE, some of its entries, in the order of the dictionary
CityToState ==
    << [city |-> <<"s", "y", "d", "n", "e", "y">>,
        state |-> <<"N", "S", "W">>],
       [city |-> <<"n", "o", "r", "t", "h", " ", "s", "y", "d", "n", "e", "y">>,
        state |-> <<"N", "S", "W">>],
       [city |-> <<"o", "r", "a", "n", "g", "e">>,
        state |-> <<"N", "S", "W">>],
       [city |-> <<"m", "e", "l", "b", "o", "u", "r", "n", "e">>,
        state |-> <<"V", "I", "C">>],
       [city |-> <<"b", "r", "i", "s", "b", "a", "n", "e">>,
        state |-> <<"Q", "L", "D">>],
       [city |-> <<"g", "o", "l", "d", " ", "c", "o", "a", "s", "t">>,
        state |-> <<"Q", "L", "D">>],
       [city |-> <<"p", "e", "r", "t", "h">>,
        state |-> <<"W", "A">>],
       [city |-> <<"d", "a", "r", "w", "i", "n">>,
        state |-> <<"N", "T">>] >>

\* AUSTRALIAN_STATES, in the order of the list
AustralianStates ==
    << <<"N", "S", "W">>,
       <<"V", "I", "C">>,
       <<"Q", "L", "D">>,
       <<"S", "A">>,
       <<"W", "A">>,
       <<"T", "A", "S">>,
       <<"N", "T">>,
       <<"A", "C", "T">> >>

\* STATE_NAMES
StateNames ==
    { <<"n", "e", "w", " ", "s", "o", "u", "t", "h", " ", "w", "a", "l", "e", "s">>,
      <<"n", "s", "w">>,
      <<"v", "i", "c", "t", "o", "r", "i", "a">>,
      <<"v", "i", "c">>,
      <<"q", "u", "e", "e", "n", "s", "l", "a", "n", "d">>,
      <<"q", "l", "d">>,
      <<"s", "o", "u", "t", "h", " ", "a", "u", "s", "t", "r", "a", "l", "i", "a">>,
      <<"s", "a">>,
      <<"w", "e", "s", "t", "e", "r", "n", " ", "a", "u", "s", "t", "r", "a", "l", "i", "a">>,
      <<"w", "a">>,
      <<"t", "a", "s", "m", "a", "n", "i", "a">>,
      <<"t", "a", "s">>,
      <<"n", "o", "r", "t", "h", "e", "r", "n", " ", "t", "e", "r", "r", "i", "t", "o", "r", "y">>,
      <<"n", "t">>,
      <<"a", "u", "s", "t", "r", "a", "l", "i", "a", "n", " ", "c", "a", "p", "i", "t", "a", "l", " ", "t", "e", "r", "r", "i", "t", "o", "r", "y">>,
      <<"a", "c", "t">>,
      <<"a", "u", "s", "t", "r", "a", "l", "i", "a">>,
      <<"a", "u">> }

\* one regular-expression item matching a character of a class once
One(C) == [cls |-> C, q |-> "one"]

\* NON_CITY_PATTERNS, in the order of the list
NonCityPatterns ==
    << Word(<<"c", "b", "d", " ", "a", "n", "d", " ", "i", "n", "n", "e", "r", " ", "s", "u", "b", "u", "r", "b", "s">>),
       Word(<<"i", "n", "n", "e", "r", " ", "s", "u", "b", "u", "r", "b", "s">>),
       Word(<<"w", "e", "s", "t", "e", "r", "n", " ", "s", "u", "b", "u", "r", "b", "s">>),
       Word(<<"e", "a", "s", "t", "e", "r", "n", " ", "s", "u", "b", "u", "r", "b", "s">>),
       Word(<<"n", "o", "r", "t", "h", "e", "r", "n", " ", "s", "u", "b", "u", "r", "b", "s">>),
       Word(<<"s", "o", "u", "t", "h", "e", "r", "n", " ", "s", "u", "b", "u", "r", "b", "s">>),
       Word(<<"m", "e", "t", "r", "o">>),
       Word(<<"m", "e", "t", "r", "o", "p", "o", "l", "i", "t", "a", "n">>),
       Word(<<"r", "e", "g", "i", "o", "n">>),
       Word(<<"a", "r", "e", "a">>),
       Word(<<"g", "r", "e", "a", "t", "e", "r">>)
           \o <<One(Whitespace), Star(Whitespace), One(WordChars)>> >>

IsCity(name) == \E i \in 1..Len(CityToState) : CityToState[i].city = name

\* CITY_TO_STATE[name]
StateOf(name) ==
    CityToState[CHOOSE i \in 1..Len(CityToState) : CityToState[i].city = name].state

\* str.upper()
Upper(s) == [i \in 1..Len(s) |-> UpperChar(s[i])]

\* str.title(): a letter is upper-cased after a non-letter, lower-cased
\* after a letter
Title(s) ==
    [i \in 1..Len(s) |->
        IF i > 1 /\ s[i - 1] \in Letters THEN LowerChar(s[i]) ELSE UpperChar(s[i])]

\* re.search(pat, s) finds a match
Search(pat, s) == \E i \in 1..Len(s) : MatchEnd(pat, 1, s, i) # 0

\* str.rstrip(',')
RECURSIVE RStripComma(_)
RStripComma(s) ==
    IF s # <<>> /\ s[Len(s)] = "," THEN RStripComma(SubSeq(s, 1, Len(s) - 1))
    ELSE s

\* [p.strip() for p in s.split(',')]; part is the piece being read
RECURSIVE SplitParts(_, _)
SplitParts(s, part) ==
    IF s = <<>> THEN <<Strip(part)>>
    ELSE IF Head(s) = "," THEN <<Strip(part)>> \o SplitParts(Tail(s), <<>>)
         ELSE SplitParts(Tail(s), Append(part, Head(s)))

Sentinel == [city |-> <<"A", "u", "s", "t", "r", "a", "l", "i", "a">>, state |-> <<>>]

Min(S) == CHOOSE x \in S : \A y \in S : x <= y

\* the matches of \b(NSW|VIC|...)\b in location, ignoring case, as pairs of
\* a start index and the place of the alternative in the pattern
\* the alternatives of state_pattern as regular expressions
StatePatterns ==
    [k \in 1..Len(AustralianStates) |-> Word(Lower(AustralianStates[k]))]

StateHits(location) ==
    {h \in {i \in 1..Len(location) : WordBoundary(location, i)}
              \X (1..Len(AustralianStates)) :
        LET e == MatchEnd(StatePatterns[h[2]], 1, location, h[1])
        IN  e # 0 /\ WordBoundary(location, e)}

\* state_match = re.search(...): the leftmost match, start 0 when there is
\* none; state is state_match.group(1).upper()
StateMatch(location) ==
    LET hits == StateHits(location)
    IN  IF hits = {} THEN [start |-> 0, state |-> <<>>]
        ELSE LET start == Min({h[1] : h \in hits})
                 k == Min({h[2] : h \in {g \in hits : g[1] = start}})
             IN  [start |-> start,
                  state |-> Upper(SubSeq(location, start,
                                         start + Len(AustralianStates[k]) - 1))]

\* city_candidate: the text before the state, after its last comma
CityCandidate(location, start) ==
    LET location_before_state ==
            Strip(RStripComma(Strip(SubSeq(location, 1, start - 1))))
        parts == SplitParts(location_before_state, <<>>)
    IN  IF "," \in Range(location_before_state) THEN parts[Len(parts)]
        ELSE location_before_state

\* for part in reversed(parts): the first known city, <<>> for none
RECURSIVE CityFromParts(_, _)
CityFromParts(parts, k) ==
    IF k = 0 THEN <<>>
    ELSE IF IsCity(Lower(parts[k])) THEN parts[k]
         ELSE CityFromParts(parts, k - 1)

\* the branch without a state abbreviation (both implementations)
CityWithoutState(location) ==
    LET name == IF "," \in Range(location)
                THEN LET parts == SplitParts(location, <<>>)
                     IN  CityFromParts(parts, Len(parts))
                ELSE IF IsCity(Lower(location)) THEN location ELSE <<>>
    IN  IF name = <<>> THEN <<>>
        ELSE <<[city |-> Title(name), state |-> StateOf(Lower(name))]>>

IsStateName(location_lower) == location_lower \in StateNames

IsNonCity(location_lower) ==
    \E k \in 1..Len(NonCityPatterns) : Search(NonCityPatterns[k], location_lower)

KnownCityOrEmptyKept(city_candidate, state) ==
    LET city == IF IsCity(Lower(city_candidate)) THEN Title(city_candidate)
                ELSE <<>>
    IN  <<[city |-> city, state |-> state]>>

\* aujobsscraper: a state with an unknown city gives city "" and `if city`
\* drops the entry
KnownCityOrEmpty(city_candidate, state) ==
    LET city == IF IsCity(Lower(city_candidate)) THEN Title(city_candidate)
                ELSE <<>>
    IN  IF city # <<>> THEN <<[city |-> city, state |-> state]>> ELSE <<>>

\* aujobsscraper normalize_locations, the body of the loop: the entries one
\* input string appends to normalized
NormalizeOne(location0) ==
    LET location == Strip(location0)
        location_lower == Lower(location)
        state_match == StateMatch(location)
    IN  IF location0 = <<>> THEN <<>>
        ELSE IF location_lower \in {<<"a", "u", "s", "t", "r", "a", "l", "i", "a">>, <<"a", "u">>} THEN <<Sentinel>>
        ELSE IF IsStateName(location_lower) \/ IsNonCity(location_lower) THEN <<>>
        ELSE IF state_match.start # 0
             THEN KnownCityOrEmpty(CityCandidate(location, state_match.start),
                                   state_match.state)
             ELSE CityWithoutState(location)

\* jobly normalize_locations, the body of the loop
NormalizeOneJobly(location0) ==
    LET location == Strip(location0)
        location_lower == Lower(location)
        state_match == StateMatch(location)
    IN  IF location0 = <<>> THEN <<>>
        ELSE IF IsStateName(location_lower) \/ IsNonCity(location_lower) THEN <<>>
        ELSE IF state_match.start # 0
             THEN LET city_candidate == CityCandidate(location, state_match.start)
                  IN  IF IsCity(Lower(city_candidate))
                      THEN <<[city |-> Title(city_candidate),
                              state |-> state_match.state]>>
                      ELSE <<>>
             ELSE CityWithoutState(location)

UniqueNormalizedKeepAll(normalized, seen, unique_normalized) == normalized

\* the loop that removes duplicates while preserving order
RECURSIVE UniqueNormalized(_, _, _)
UniqueNormalized(normalized, seen, unique_normalized) ==
    IF normalized = <<>> THEN unique_normalized
    ELSE LET loc == Head(normalized)
             loc_tuple == <<loc.city, loc.state>>
         IN  IF loc_tuple \in seen
             THEN UniqueNormalized(Tail(normalized), seen, unique_normalized)
             ELSE UniqueNormalized(Tail(normalized), seen \cup {loc_tuple},
                                   Append(unique_normalized, loc))

RECURSIVE Normalized(_)
Normalized(locations) ==
    IF locations = <<>> THEN <<>>
    ELSE NormalizeOne(Head(locations)) \o Normalized(Tail(locations))

RECURSIVE NormalizedJobly(_)
NormalizedJobly(locations) ==
    IF locations = <<>> THEN <<>>
    ELSE NormalizeOneJobly(Head(locations)) \o NormalizedJobly(Tail(locations))

\* aujobsscraper normalize_locations
NormalizeLocations(locations) ==
    UniqueNormalized(Normalized(locations), {}, <<>>)

\* jobly normalize_locations
NormalizeLocationsJobly(locations) ==
    UniqueNormalized(NormalizedJobly(locations), {}, <<>>)

\* the raw strings the scrapers pass: the country, "City STATE",
\* "Suburb, City STATE", a suburb with a state, a region, a bare city, a
\* city before a country, and a city with another state's abbreviation
LocStrings ==
    { <<"A", "u", "s", "t", "r", "a", "l", "i", "a">>,
      <<" ", "a", "u">>,
      <<"S", "y", "d", "n", "e", "y", " ", "N", "S", "W">>,
      <<"s", "y", "d", "n", "e", "y", ",", " ", "n", "s", "w">>,
      <<"F", "o", "r", "t", "i", "t", "u", "d", "e", " ", "V", "a", "l", "l", "e", "y", ",", " ", "B", "r", "i", "s", "b", "a", "n", "e", " ", "Q", "L", "D">>,
      <<"F", "o", "r", "t", "i", "t", "u", "d", "e", " ", "V", "a", "l", "l", "e", "y", " ", "Q", "L", "D">>,
      <<"G", "r", "e", "a", "t", "e", "r", " ", "P", "e", "r", "t", "h">>,
      <<"G", "o", "l", "d", " ", "C", "o", "a", "s", "t">>,
      <<"P", "e", "r", "t", "h", ",", " ", "A", "u", "s", "t", "r", "a", "l", "i", "a">>,
      <<"D", "a", "r", "w", "i", "n", " ", "V", "I", "C">> }

\* what both implementations return for a list
NormalizeBoth(locations) ==
    [aus |-> NormalizeLocations(locations),
     jobly |-> NormalizeLocationsJobly(locations)]

\* an entry written as "City, STATE"
CityState(loc) == loc.city \o <<",", " ">> \o loc.state

InitLoc ==
    /\ InitDb /\ faults = 0 /\ InitFpIdle /\ InitScIdle /\ InitLateIdle
    /\ salTokens = <<>> /\ salText = <<>>
    /\ salResult = [parser |-> NoSalary, normalizer |-> NoSalary]
    /\ roleTitle = <<>>
    /\ roleResult = [aus |-> "Specialized", jobly |-> "Specialized"]
    /\ locInput = <<>>
    /\ locOutput = NormalizeBoth(<<>>)

\* a scraper reads one more raw location and normalizes the list
LocAppend(location) ==
    /\ Len(locInput) < MaxLocs
    /\ locInput' = Append(locInput, location)
    /\ locOutput' = NormalizeBoth(locInput')
    /\ UNCHANGED <<dbVars, fpVars, scVars, salVars, roleVars, lateVars>>

\* the list returned last is written as "City, STATE" strings and normalized
LocRefeed ==
    /\ locOutput.aus # <<>>
    /\ locInput' = [i \in 1..Len(locOutput.aus) |-> CityState(locOutput.aus[i])]
    /\ locOutput' = NormalizeBoth(locInput')
    /\ UNCHANGED <<dbVars, fpVars, scVars, salVars, roleVars, lateVars>>

NextLoc ==
    \/ \E location \in LocStrings : LocAppend(location)
    \/ LocRefeed

SpecLoc == InitLoc /\ [][NextLoc]_vars

----------------------------------------------------------------------------
(* Properties of normalize_locations *)

\* the place where a pair first occurs in a list of entries
FirstAt(stream, loc) == Min({i \in 1..Len(stream) : LocKey(stream[i]) = LocKey(loc)})

\* out holds each pair of stream once, in the order of first occurrence
FirstOccurrences(out, stream) ==
    /\ NoRepeatedKey(out)
    /\ LocKeys(out) = LocKeys(stream)
    /\ \A i, j \in 1..Len(out) :
         i < j => FirstAt(stream, out[i]) < FirstAt(stream, out[j])

\* C12: in the list normalize_locations returns (either implementation) no
\* two entries have the same (city, state) pair, and the entries are in the
\* order in which the input first produced their pair.
C12_DedupKeepsFirstOrder ==
    /\ FirstOccurrences(locOutput.aus, Normalized(locInput))
    /\ FirstOccurrences(locOutput.jobly, NormalizedJobly(locInput))

\* three inputs give A, B, A: the repeat is dropped and A stays first
C12_Witness ==
    LET stream == Normalized(locInput)
    IN  /\ Len(stream) = 3
        /\ stream[1] = stream[3]
        /\ stream[1] # stream[2]
        /\ locInput[1] # locInput[3]
        /\ locOutput.aus = <<stream[1], stream[2]>>
        /\ locOutput.jobly = locOutput.aus

\* the gazetteer cities as they are written in Title Case
TitleCities == {Title(CityToState[i].city) : i \in 1..Len(CityToState)}

IsCountry(location) == Lower(Strip(location)) \in {<<"a", "u", "s", "t", "r", "a", "l", "i", "a">>, <<"a", "u">>}

\* the string names a gazetteer city somewhere
MentionsCity(location) ==
    \E i \in 1..Len(CityToState) :
        Search(Word(CityToState[i].city), Lower(location))

HasStateAbbreviation(location) == StateMatch(Strip(location)).start # 0

\* C13: every entry returned by aujobsscraper's normalize_locations has a
\* non-empty city that is a gazetteer city in Title Case or "Australia", its
\* state is empty only when the city is "Australia", and inputs none of
\* which names a gazetteer city or the country give no entry at all.
C13_CityKnownOrAustralia ==
    /\ \A i \in 1..Len(locOutput.aus) :
         LET loc == locOutput.aus[i]
         IN  /\ loc.city # <<>>
             /\ loc.city \in TitleCities \cup {Sentinel.city}
             /\ loc.state = <<>> => loc.city = Sentinel.city
    /\ (\A i \in 1..Len(locInput) :
           ~MentionsCity(locInput[i]) /\ ~IsCountry(locInput[i]))
         => locOutput.aus = <<>>

\* an input with a state abbreviation and no gazetteer city was read, and
\* the list holds the sentinel and a city only
C13_Witness ==
    /\ \E i \in 1..Len(locInput) :
         HasStateAbbreviation(locInput[i]) /\ ~MentionsCity(locInput[i])
    /\ Len(locInput) = 3
    /\ Len(locOutput.aus) = 2
    /\ \E i \in 1..2 : locOutput.aus[i] = Sentinel
    /\ \E i \in 1..2 : locOutput.aus[i].state # <<>>

\* the sentinel rule for one of the returned lists
SentinelKept(out) ==
    /\ (\E i \in 1..Len(locInput) : IsCountry(locInput[i]))
         => \E j \in 1..Len(out) : out[j] = Sentinel
    /\ (locInput # <<>> /\ \A i \in 1..Len(locInput) : IsCountry(locInput[i]))
         => out = <<Sentinel>>

\* C14: normalize_locations (either implementation) turns an input equal to
\* "australia" or "au" after trimming and lower-casing into the sentinel, so
\* a list of country-only inputs gives exactly one sentinel entry.
C14_SentinelPreserved ==
    /\ SentinelKept(locOutput.aus)
    /\ SentinelKept(locOutput.jobly)

\* the part of C14 that the aujobsscraper implementation keeps
SentinelKeptAus == SentinelKept(locOutput.aus)

\* C15: writing the entries of a list returned by aujobsscraper's
\* normalize_locations as "City, STATE" strings and normalizing those
\* strings returns the same list.
C15_StableOnOwnOutput == [][LocRefeed => locOutput'.aus = locOutput.aus]_vars

\* C15 for the lists that do not hold the sentinel
StableWithoutSentinel ==
    [][(LocRefeed /\ \A i \in 1..Len(locOutput.aus) : locOutput.aus[i] # Sentinel)
          => locOutput'.aus = locOutput.aus]_vars

----------------------------------------------------------------------------
(* SalaryParser (aujobsscraper/utils/salary_parser.py) and normalize_salary*)
(* (aujobsscraper/utils/scraper_utils.py).  An amount is a natural number: *)
(* the texts of the model hold no decimal point.                           *)

\* the largest number the checker computes with; Python's floats are exact
\* far beyond it
Cap == 2^30 + (2^30 - 1)

\* a * b, exact below Cap; any larger product is given as Cap
Times(a, b) == IF b # 0 /\ a > Cap \div b THEN Cap ELSE a * b

Plus(a, b) == IF a > Cap - b THEN Cap ELSE a + b

DigitValue(c) ==
    CASE c = "0" -> 0 [] c = "1" -> 1 [] c = "2" -> 2 [] c = "3" -> 3
      [] c = "4" -> 4 [] c = "5" -> 5 [] c = "6" -> 6 [] c = "7" -> 7
      [] c = "8" -> 8 [] c = "9" -> 9

\* float(digits) for a non-empty string of digits; acc is the value read
RECURSIVE Float(_, _)
Float(digits, acc) ==
    IF digits = <<>> THEN acc
    ELSE Float(Tail(digits), Plus(Times(acc, 10), DigitValue(Head(digits))))

\* str.replace(',', '')
RemoveCommas(s) == SelectSeq(s, LAMBDA c : c # ",")

\* `sub in text`
In(sub, text) ==
    \/ sub = <<>>
    \/ \E i \in 1..(Len(text) - Len(sub) + 1) :
           text[i] = sub[1] /\ SubSeq(text, i, i + Len(sub) - 1) = sub

\* text has word at index i
At(word, text, i) ==
    /\ i + Len(word) - 1 <= Len(text)
    /\ word = <<>> \/ text[i] = word[1]
    /\ SubSeq(text, i, i + Len(word) - 1) = word

\* the index after the longest run of characters of C that starts at s[i]
RECURSIVE Run(_, _, _)
Run(C, s, i) == IF i <= Len(s) /\ s[i] \in C THEN Run(C, s, i + 1) ELSE i

\* the index after an optional character c at s[i]
Skip(c, s, i) == IF i <= Len(s) /\ s[i] = c THEN i + 1 ELSE i

\* description.replace('\\$', '$').replace('\\-', '-').replace('\\.', '.')
RECURSIVE Unescape(_)
Unescape(s) ==
    IF s = <<>> THEN <<>>
    ELSE IF Head(s) = "\\" /\ Len(s) > 1 /\ s[2] \in {"$", "-", "."}
         THEN <<s[2]>> \o Unescape(Tail(Tail(s)))
         ELSE <<Head(s)>> \o Unescape(Tail(s))

MAX_CHARS_TO_SEARCH == 1000

\* _get_first_sentences for a text without sentence delimiters
GetFirstSentences(text) ==
    IF Len(text) <= MAX_CHARS_TO_SEARCH THEN text
    ELSE SubSeq(text, 1, MAX_CHARS_TO_SEARCH)

\* [\d,]
DigitOrComma == Digits \cup {","}

\* [-...to] under re.IGNORECASE, within the characters of the texts
Separator == {"-", "t", "o"}

\* RANGE_PATTERN matched at text[i]: the bounds of its two groups and the
\* index after the match; every item is followed by a disjoint class, so
\* the greedy match is the only one
RangeAt(text, i) ==
    LET b == Run(Whitespace, text, Skip("$", text, i))
        c == Run(DigitOrComma, text, b)
        d == Run(Whitespace, text, c)
        e == Run(Separator, Lower(text), d)
        g == Skip("$", text, Run(Whitespace, text, e))
        h == Run(DigitOrComma, text, g)
    IN  [ok |-> c > b /\ e > d /\ h > g,
         group1 |-> SubSeq(text, b, c - 1),
         group2 |-> SubSeq(text, g, h - 1),
         start |-> i, end |-> h]

\* the window of 50 characters around a match, lower-cased
Context(text, m) ==
    LET start == IF m.start - 50 > 1 THEN m.start - 50 ELSE 1
        end == IF m.end - 1 + 50 < Len(text) THEN m.end - 1 + 50 ELSE Len(text)
    IN  Lower(SubSeq(text, start, end))

\* SalaryParser._detect_interval
DetectInterval(text) ==
    IF In(<<"h", "o", "u", "r">>, text) \/ In(<<"/", "h", "r">>, text) \/ In(<<"h", "r", "l", "y">>, text) THEN "hourly"
    ELSE IF In(<<"d", "a", "y">>, text) THEN "daily"
    ELSE IF In(<<"w", "e", "e", "k">>, text) \/ In(<<"w", "k">>, text) THEN "weekly"
    ELSE IF In(<<"m", "o", "n", "t", "h">>, text) \/ In(<<"m", "o">>, text) \/ In(<<"m", "t", "h">>, text) THEN "monthly"
    ELSE "yearly"

\* multipliers.get(interval, 1)
Multiplier(interval) ==
    CASE interval = "hourly" -> 2080
      [] interval = "daily" -> 260
      [] interval = "weekly" -> 52
      [] interval = "monthly" -> 12
      [] OTHER -> 1

\* SalaryParser._to_annual
ToAnnual(amount, interval) == Times(amount, Multiplier(interval))

\* the None that _extract_range and _extract_single_value return
NoMatch == [found |-> FALSE, min_val |-> 0, max_val |-> 0, interval |-> ""]

\* SalaryParser._extract_range: None, or min_val, max_val and the interval
ExtractRange(text) ==
    LET starts == {i \in 1..Len(text) : RangeAt(text, i).ok}
    IN  IF starts = {} THEN NoMatch
        ELSE LET match == RangeAt(text, Min(starts))
                 min_str == RemoveCommas(match.group1)
                 max_str == RemoveCommas(match.group2)
             IN  IF min_str = <<>> \/ max_str = <<>> THEN NoMatch
                 ELSE [found |-> TRUE,
                       min_val |-> Float(min_str, 0),
                       max_val |-> Float(max_str, 0),
                       interval |-> DetectInterval(Context(text, match))]

\* the alternatives of the interval group of SINGLE_VALUE_PATTERN, in order
IntervalWords ==
    << <<"h", "o", "u", "r">>, <<"h", "r">>, <<"w", "e", "e", "k">>, <<"m", "o", "n", "t", "h">>, <<"y", "e", "a", "r">>, <<"a", "n", "n", "u", "a", "l">>, <<"a", "n", "n", "u", "m">> >>

\* the index after the first of words found at text[i], i for none
RECURSIVE SkipFirst(_, _, _, _)
SkipFirst(words, k, text, i) ==
    IF k > Len(words) THEN i
    ELSE IF At(words[k], text, i) THEN i + Len(words[k])
         ELSE SkipFirst(words, k + 1, text, i)

\* SINGLE_VALUE_PATTERN matched at text[i] (re.IGNORECASE): everything
\* after the digits is optional and taken greedily
SingleAt(text, i) ==
    LET lower == Lower(text)
        b == Run(Whitespace, text, Skip("$", text, i))
        c == Run(DigitOrComma, text, b)
        d == Run(Whitespace, text, Skip("k", lower, c))
        e == Run(Whitespace, text, SkipFirst(<<<<"p", "e", "r">>, <<"/">>>>, 1, lower, d))
        h == SkipFirst(IntervalWords, 1, lower, e)
    IN  [ok |-> c > b,
         group0 |-> SubSeq(text, i, h - 1),
         group1 |-> SubSeq(text, b, c - 1),
         start |-> i, end |-> h]

\* the k test of _extract_single_value (lines 109-111)
HasK(group0) == "k" \in Range(Lower(group0))

\* SalaryParser._extract_single_value: None, or val (given as min_val and
\* max_val) and the interval
ExtractSingleValue(text) ==
    LET starts == {i \in 1..Len(text) : SingleAt(text, i).ok}
    IN  IF starts = {} THEN NoMatch
        ELSE LET match == SingleAt(text, Min(starts))
                 val_str == RemoveCommas(match.group1)
                 parsed == Float(val_str, 0)
                 val == IF HasK(match.group0) THEN Times(parsed, 1000) ELSE parsed
             IN  IF val_str = <<>> THEN NoMatch
                 ELSE [found |-> TRUE, min_val |-> val, max_val |-> val,
                       interval |-> DetectInterval(Context(text, match))]

Lesser(a, b) == IF a <= b THEN a ELSE b

Greater(a, b) == IF a >= b THEN a ELSE b

\* SalaryParser.extract_salary
ExtractSalary(description) ==
    IF description = <<>> THEN NoSalary
    ELSE LET search_text == GetFirstSentences(Unescape(description))
             range_match == ExtractRange(search_text)
             single_match == ExtractSingleValue(search_text)
         IN  IF range_match.found
             THEN LET annual_min == ToAnnual(range_match.min_val, range_match.interval)
                      annual_max == ToAnnual(range_match.max_val, range_match.interval)
                  IN  Salary(Lesser(annual_min, annual_max),
                             Greater(annual_min, annual_max))
             ELSE IF single_match.found
             THEN LET annual == ToAnnual(single_match.min_val, single_match.interval)
                  IN  Salary(annual, annual)
             ELSE NoSalary

AnyIn(subs, text) == \E sub \in subs : In(sub, text)

\* normalize_salary, step 2: the multiplier of the time unit
UnitMultiplier(text) ==
    IF AnyIn({<<"h", "o", "u", "r">>, <<"h", "r">>, <<"/", "h", "r">>, <<"p", "h">>}, text) THEN 2080
    ELSE IF AnyIn({<<"m", "o", "n", "t", "h">>, <<"m", "o">>, <<"/", "m", "o">>}, text) THEN 12
    ELSE IF AnyIn({<<"w", "e", "e", "k">>, <<"w", "k">>}, text) THEN 52
    ELSE IF AnyIn({<<"d", "a", "y">>, <<"d", "a", "i", "l", "y">>}, text) THEN 260
    ELSE 1

\* normalize_salary, step 3: re.findall(r'(\d+\.?\d*)(k?)', text) from
\* text[i] on for a text without decimal points, each match converted to
\* its value
RECURSIVE FindValues(_, _)
FindValues(text, i) ==
    IF i > Len(text) THEN <<>>
    ELSE IF text[i] \notin Digits THEN FindValues(text, i + 1)
    ELSE LET e == Run(Digits, text, i)
             val == Float(SubSeq(text, i, e - 1), 0)
             k == e <= Len(text) /\ text[e] = "k"
         IN  <<IF k THEN Times(val, 1000) ELSE val>>
                 \o FindValues(text, IF k THEN e + 1 ELSE e)

\* normalize_salary, step 4: the "80-100k" correction
FixThousands(values) ==
    IF Len(values) = 2 /\ values[2] > 1000 /\ values[1] < 1000
    THEN <<Times(values[1], 1000), values[2]>>
    ELSE values

\* normalize_salary, step 6: the sanity check on min_sal
OutOfRange(min_sal) == min_sal < 10000 \/ min_sal > 1000000

SeqMin(values) == Min(Range(values))

SeqMax(values) == CHOOSE x \in Range(values) : \A y \in Range(values) : x >= y

\* normalize_salary
NormalizeSalary(raw_text) ==
    IF raw_text = <<>> THEN NoSalary
    ELSE LET text == RemoveCommas(Lower(raw_text))
             multiplier == UnitMultiplier(text)
             values == FixThousands(FindValues(text, 1))
         IN  IF values = <<>> THEN NoSalary
             ELSE LET min_sal == Times(SeqMin(values), multiplier)
                      max_sal == Times(SeqMax(values), multiplier)
                  IN  IF OutOfRange(min_sal) THEN NoSalary
                      ELSE Salary(min_sal, max_sal)

\* the pieces salary texts are made of: a hyphen, amounts (one of them
\* escaped), the k suffix, interval phrases and the upper end of a range
SalaryTokens ==
    { <<"-">>,
      <<"$", "5", "0">>,
      <<"$", "1", ",", "0", "0", "0">>,
      <<"$", "5", "0", ",", "0", "0", "0">>,
      <<"\\", "$", "4", "0", "0">>,
      <<"k">>,
      <<" ", "p", "e", "r", " ", "h", "o", "u", "r">>,
      <<" ", "p", "e", "r", " ", "d", "a", "y">>,
      <<" ", "p", "e", "r", " ", "w", "e", "e", "k">>,
      <<" ", "p", "e", "r", " ", "m", "o", "n", "t", "h">>,
      <<" ", "p", "e", "r", " ", "y", "e", "a", "r">>,
      <<" ", "-", " ", "$", "8", "5", ",", "0", "0", "0">> }

\* what the two free-text extractors return for a text
ExtractBoth(text) ==
    [parser |-> ExtractSalary(text), normalizer |-> NormalizeSalary(text)]

InitSal ==
    /\ InitDb /\ faults = 0 /\ InitFpIdle /\ InitScIdle /\ InitLateIdle
    /\ locInput = <<>> /\ locOutput = [aus |-> <<>>, jobly |-> <<>>]
    /\ roleTitle = <<>>
    /\ roleResult = [aus |-> "Specialized", jobly |-> "Specialized"]
    /\ salText = <<>>
    /\ salTokens = <<>>
    /\ salResult = ExtractBoth(<<>>)

\* the description grows by one piece and the extractors are run on it
SalAppend(token) ==
    /\ Len(salTokens) < MaxTokens
    /\ salTokens' = Append(salTokens, token)
    /\ salText' = salText \o token
    /\ salResult' = ExtractBoth(salText')
    /\ UNCHANGED <<dbVars, fpVars, scVars, locVars, roleVars, lateVars>>

NextSal == \E token \in SalaryTokens : SalAppend(token)

SpecSal == InitSal /\ [][NextSal]_vars

(***************************************************************************)
(* Properties of the salary extractors                                     *)
(***************************************************************************)

\* the amounts written without a k suffix, and the number each one states
PlainAmounts ==
    { <<"$", "5", "0">>, <<"$", "1", ",", "0", "0", "0">>, <<"$", "5", "0", ",", "0", "0", "0">>, <<"\\", "$", "4", "0", "0">> }

AmountOf(token) ==
    Float(RemoveCommas(SelectSeq(token, LAMBDA c : c \in Digits \cup {","})), 0)

\* the interval phrases, and the interval each one names
IntervalPhrases ==
    { <<" ", "p", "e", "r", " ", "h", "o", "u", "r">>, <<" ", "p", "e", "r", " ", "d", "a", "y">>, <<" ", "p", "e", "r", " ", "w", "e", "e", "k">>, <<" ", "p", "e", "r", " ", "m", "o", "n", "t", "h">>, <<" ", "p", "e", "r", " ", "y", "e", "a", "r">> }

IntervalOf(phrase) ==
    CASE phrase = <<" ", "p", "e", "r", " ", "h", "o", "u", "r">> -> "hourly"
      [] phrase = <<" ", "p", "e", "r", " ", "d", "a", "y">> -> "daily"
      [] phrase = <<" ", "p", "e", "r", " ", "w", "e", "e", "k">> -> "weekly"
      [] phrase = <<" ", "p", "e", "r", " ", "m", "o", "n", "t", "h">> -> "monthly"
      [] OTHER -> "yearly"

\* the text is one amount without a k suffix, alone or followed by one
\* interval phrase
SingleAmountText ==
    /\ Len(salTokens) \in {1, 2}
    /\ salTokens[1] \in PlainAmounts
    /\ Len(salTokens) = 2 => salTokens[2] \in IntervalPhrases

\* the interval of the text, yearly when it has no interval phrase
StatedInterval ==
    IF Len(salTokens) = 2 THEN IntervalOf(salTokens[2]) ELSE "yearly"

\* the amount of the text multiplied by the table factor of its interval
TableAnnual == AmountOf(salTokens[1]) * Multiplier(StatedInterval)

\* C16: for a text holding a single amount X with an interval word and no
\* k suffix on the amount, SalaryParser.extract_salary returns annual_min =
\* annual_max = X times the table factor of the interval (hourly 2080,
\* daily 260, weekly 52, monthly 12, yearly 1), yearly when the text has no
\* interval word.
C16_SingleAmountAnnualized ==
    SingleAmountText => salResult.parser = Salary(TableAnnual, TableAnnual)

\* the same for every interval but the weekly one: it holds
AnnualizedUnlessWeekly ==
    SingleAmountText /\ StatedInterval # "weekly"
        => salResult.parser = Salary(TableAnnual, TableAnnual)

\* a weekly amount comes back a thousand times the table value
WeeklyTimesThousand ==
    SingleAmountText /\ StatedInterval = "weekly"
        => salResult.parser = Salary(Times(TableAnnual, 1000), Times(TableAnnual, 1000))

\* the text starts with a bare hyphen and holds exactly one amount
LeadingHyphenText ==
    /\ Len(salTokens) >= 2
    /\ salTokens[1] = <<"-">>
    /\ salTokens[2] \in PlainAmounts
    /\ \A i \in 3..Len(salTokens) : salTokens[i] \in IntervalPhrases

\* C17: extract_salary returns null for a text whose only amount is preceded
\* by a bare hyphen and is not followed by a second amount: a leading hyphen
\* never yields a salary.
C17_LeadingHyphenGivesNone ==
    LeadingHyphenText => salResult.parser = NoSalary

\* the plausibility bound of an annual minimum
Plausible(salary) ==
    salary.null \/ (salary.annual_min >= 10000 /\ salary.annual_min <= 1000000)

\* C18: every non-null salary returned by SalaryParser.extract_salary and by
\* normalize_salary has annual_min between 10,000 and 1,000,000.
C18_AnnualMinPlausible ==
    Plausible(salResult.parser) /\ Plausible(salResult.normalizer)

\* normalize_salary alone keeps the bound
NormalizerPlausible == Plausible(salResult.normalizer)

-----------------------------------------------------------------------------
(***************************************************************************)
(* The job-role classifier: extract_job_role of aujobsscraper              *)
(* (aujobsscraper/utils/scraper_utils.py) and of jobly                      *)
(* (jobly/utils/scraper_utils.py).  aujobsscraper imports STOP_WORDS and    *)
(* ROLE_TAXONOMY from its constants module, which does not define them: the *)
(* definitions are those of jobly/utils/constants.py.  The title is given   *)
(* without a company name, as the scrapers call it.                         *)
(***************************************************************************)

\* STOP_WORDS, in the order written.  The source keeps a set: a stop word is
\* replaced by a space between word boundaries, so the order of removal
\* changes only the whitespace, which is collapsed afterwards.
STOP_WORDS ==
    << <<"i", "n", "t", "e", "r", "n", "s", "h", "i", "p">>, <<"i", "n", "t", "e", "r", "n">>,
       <<"g", "r", "a", "d">>, <<"p", "r", "o", "g", "r", "a", "m">>,
       <<"g", "r", "a", "d", "u", "a", "t", "e">>,
       <<"g", "r", "a", "d", "u", "a", "t", "e", " ", "p", "r", "o", "g", "r", "a", "m">>,
       <<"p", "h", "d">>, <<"m", "a", "s", "t", "e", "r", "s">>, <<"s", "t", "a", "r", "t">>,
       <<"2", "0", "2", "5">>, <<"2", "0", "2", "6">>, <<"2", "0", "2", "4">>, <<"2", "0", "2", "7">>,
       <<"f", "u", "l", "l", "-", "t", "i", "m", "e">>, <<"f", "u", "l", "l", " ", "t", "i", "m", "e">>,
       <<"p", "a", "r", "t", "-", "t", "i", "m", "e">>, <<"p", "a", "r", "t", " ", "t", "i", "m", "e">>,
       <<"r", "e", "m", "o", "t", "e">>, <<"o", "n", "-", "s", "i", "t", "e">>,
       <<"o", "n", "s", "i", "t", "e">>, <<"t", "e", "m", "p", "o", "r", "a", "r", "y">>,
       <<"c", "o", "n", "t", "r", "a", "c", "t">>, <<"s", "e", "n", "i", "o", "r">>,
       <<"j", "u", "n", "i", "o", "r">>, <<"l", "e", "a", "d">>, <<"e", "n", "t", "r", "y">>,
       <<"e", "n", "t", "r", "y", " ", "l", "e", "v", "e", "l">>, <<"l", "e", "v", "e", "l">>,
       <<"p", "r", "i", "n", "c", "i", "p", "a", "l">>, <<"h", "e", "a", "d">>,
       <<"s", "t", "a", "f", "f">>, <<"t", "r", "a", "i", "n", "e", "e">> >>

\* ROLE_TAXONOMY of jobly/utils/constants.py, in its order
ROLE_TAXONOMY ==
    << [role |-> "AI Engineer",
         keywords |-> << <<"a", "i", "/", "m", "l", " ", "e", "n", "g", "i", "n", "e", "e", "r">>,
                       <<"a", "i", " ", "m", "l", " ", "e", "n", "g", "i", "n", "e", "e", "r">>,
                       <<"a", "i", " ", "/", " ", "m", "l">>, <<"a", "i", "/", "m", "l">>,
                       <<"a", "i", " ", "&", " ", "m", "l">>, <<"a", "i", " ", "e", "n", "g", "i", "n", "e", "e", "r">>,
                       <<"a", "i", " ", "s", "o", "f", "t", "w", "a", "r", "e", " ", "e", "n", "g", "i", "n", "e", "e", "r">>,
                       <<"a", "i", " ", "d", "e", "v", "e", "l", "o", "p", "e", "r">>,
                       <<"a", "i", " ", "s", "o", "f", "t", "w", "a", "r", "e", " ", "d", "e", "v", "e", "l", "o", "p", "e", "r">>,
                       <<"a", "i", " ", "p", "r", "o", "g", "r", "a", "m", "m", "e", "r">>,
                       <<"a", "r", "t", "i", "f", "i", "c", "i", "a", "l", " ", "i", "n", "t", "e", "l", "l", "i", "g", "e", "n", "c", "e", " ", "e", "n", "g", "i", "n", "e", "e", "r">>,
                       <<"g", "e", "n", "e", "r", "a", "t", "i", "v", "e", " ", "a", "i">>,
                       <<"g", "e", "n", "a", "i", " ", "e", "n", "g", "i", "n", "e", "e", "r">>,
                       <<"g", "e", "n", " ", "a", "i">>,
                       <<"g", "e", "n", "e", "r", "a", "t", "i", "v", "e", " ", "a", "i", " ", "e", "n", "g", "i", "n", "e", "e", "r">>,
                       <<"a", "i", " ", "p", "l", "a", "t", "f", "o", "r", "m", " ", "e", "n", "g", "i", "n", "e", "e", "r">>,
                       <<"a", "i", " ", "d", "e", "v", "o", "p", "s">>,
                       <<"a", "i", " ", "i", "n", "f", "r", "a", "s", "t", "r", "u", "c", "t", "u", "r", "e">>,
                       <<"a", "r", "t", "i", "f", "i", "c", "i", "a", "l", " ", "i", "n", "t", "e", "l", "l", "i", "g", "e", "n", "c", "e">> >>],
       [role |-> "Machine Learning Engineer",
         keywords |-> << <<"m", "a", "c", "h", "i", "n", "e", " ", "l", "e", "a", "r", "n", "i", "n", "g", " ", "e", "n", "g", "i", "n", "e", "e", "r">>,
                       <<"m", "l", " ", "e", "n", "g", "i", "n", "e", "e", "r">>,
                       <<"m", "a", "c", "h", "i", "n", "e", " ", "l", "e", "a", "r", "n", "i", "n", "g", " ", "d", "e", "v", "e", "l", "o", "p", "e", "r">>,
                       <<"m", "l", " ", "d", "e", "v", "e", "l", "o", "p", "e", "r">>,
                       <<"m", "l", "o", "p", "s", " ", "e", "n", "g", "i", "n", "e", "e", "r">>,
                       <<"m", "l", "o", "p", "s">>,
                       <<"d", "e", "e", "p", " ", "l", "e", "a", "r", "n", "i", "n", "g", " ", "e", "n", "g", "i", "n", "e", "e", "r">>,
                       <<"m", "l", " ", "s", "o", "f", "t", "w", "a", "r", "e", " ", "e", "n", "g", "i", "n", "e", "e", "r">> >>],
       [role |-> "NLP Engineer",
         keywords |-> << <<"n", "l", "p", " ", "e", "n", "g", "i", "n", "e", "e", "r">>,
                       <<"n", "a", "t", "u", "r", "a", "l", " ", "l", "a", "n", "g", "u", "a", "g", "e", " ", "p", "r", "o", "c", "e", "s", "s", "i", "n", "g">>,
                       <<"c", "o", "n", "v", "e", "r", "s", "a", "t", "i", "o", "n", "a", "l", " ", "a", "i">>,
                       <<"p", "r", "o", "m", "p", "t", " ", "e", "n", "g", "i", "n", "e", "e", "r">>,
                       <<"l", "l", "m", " ", "e", "n", "g", "i", "n", "e", "e", "r">>,
                       <<"l", "a", "r", "g", "e", " ", "l", "a", "n", "g", "u", "a", "g", "e", " ", "m", "o", "d", "e", "l">> >>],
       [role |-> "Research Scientist",
         keywords |-> << <<"r", "e", "s", "e", "a", "r", "c", "h", " ", "s", "c", "i", "e", "n", "t", "i", "s", "t">>,
                       <<"c", "o", "m", "p", "u", "t", "e", "r", " ", "s", "c", "i", "e", "n", "t", "i", "s", "t">>,
                       <<"a", "p", "p", "l", "i", "e", "d", " ", "s", "c", "i", "e", "n", "t", "i", "s", "t">>,
                       <<"r", "e", "s", "e", "a", "r", "c", "h", " ", "f", "e", "l", "l", "o", "w">>,
                       <<"c", "o", "m", "p", "u", "t", "a", "t", "i", "o", "n", "a", "l", " ", "s", "c", "i", "e", "n", "c", "e">>,
                       <<"r", "e", "s", "e", "a", "r", "c", "h", " ", "a", "s", "s", "i", "s", "t", "a", "n", "t">> >>],
       [role |-> "Data Scientist",
         keywords |-> << <<"d", "a", "t", "a", " ", "s", "c", "i", "e", "n", "t", "i", "s", "t">>,
                       <<"a", "p", "p", "l", "i", "e", "d", " ", "s", "c", "i", "e", "n", "t", "i", "s", "t">>,
                       <<"s", "p", "a", "t", "i", "a", "l", " ", "d", "a", "t", "a", " ", "s", "c", "i", "e", "n", "t", "i", "s", "t">> >>],
       [role |-> "Data Engineer",
         keywords |-> << <<"d", "a", "t", "a", " ", "e", "n", "g", "i", "n", "e", "e", "r">>,
                       <<"b", "i", "g", " ", "d", "a", "t", "a">>,
                       <<"e", "t", "l", " ", "d", "e", "v", "e", "l", "o", "p", "e", "r">>,
                       <<"a", "z", "u", "r", "e", " ", "d", "a", "t", "a", " ", "e", "n", "g", "i", "n", "e", "e", "r">>,
                       <<"d", "a", "t", "a", " ", "p", "i", "p", "e", "l", "i", "n", "e">> >>],
       [role |-> "Data Analyst",
         keywords |-> << <<"d", "a", "t", "a", " ", "a", "n", "a", "l", "y", "s", "t">>,
                       <<"r", "e", "p", "o", "r", "t", "i", "n", "g", " ", "a", "n", "a", "l", "y", "s", "t">>,
                       <<"i", "n", "s", "i", "g", "h", "t", "s", " ", "a", "n", "a", "l", "y", "s", "t">>,
                       <<"c", "o", "m", "m", "e", "r", "c", "i", "a", "l", " ", "a", "n", "a", "l", "y", "s", "t">> >>],
       [role |-> "Business Intelligence Analyst",
         keywords |-> << <<"b", "u", "s", "i", "n", "e", "s", "s", " ", "i", "n", "t", "e", "l", "l", "i", "g", "e", "n", "c", "e">>,
                       <<"b", "i", " ", "a", "n", "a", "l", "y", "s", "t">>,
                       <<"b", "i", " ", "d", "e", "v", "e", "l", "o", "p", "e", "r">>,
                       <<"p", "o", "w", "e", "r", " ", "b", "i">>, <<"t", "a", "b", "l", "e", "a", "u">>,
                       <<"a", "n", "a", "l", "y", "t", "i", "c", "s">> >>],
       [role |-> "Data Architect",
         keywords |-> << <<"d", "a", "t", "a", " ", "a", "r", "c", "h", "i", "t", "e", "c", "t">>,
                       <<"d", "a", "t", "a", " ", "m", "o", "d", "e", "l", "e", "r">>,
                       <<"d", "a", "t", "a", "b", "a", "s", "e", " ", "a", "r", "c", "h", "i", "t", "e", "c", "t">> >>],
       [role |-> "Database Administrator",
         keywords |-> << <<"d", "a", "t", "a", "b", "a", "s", "e", " ", "a", "d", "m", "i", "n", "i", "s", "t", "r", "a", "t", "o", "r">>,
                       <<"d", "a", "t", "a", "b", "a", "s", "e", " ", "d", "e", "v", "e", "l", "o", "p", "e", "r">>,
                       <<"s", "q", "l", " ", "d", "e", "v", "e", "l", "o", "p", "e", "r">>, <<"d", "b", "a">> >>],
       [role |-> "Frontend Developer",
         keywords |-> << <<"f", "r", "o", "n", "t", "e", "n", "d", " ", "d", "e", "v", "e", "l", "o", "p", "e", "r">>,
                       <<"f", "r", "o", "n", "t", "-", "e", "n", "d", " ", "d", "e", "v", "e", "l", "o", "p", "e", "r">>,
                       <<"f", "r", "o", "n", "t", " ", "e", "n", "d", " ", "d", "e", "v", "e", "l", "o", "p", "e", "r">>,
                       <<"u", "i", " ", "d", "e", "v", "e", "l", "o", "p", "e", "r">>,
                       <<"u", "i", " ", "e", "n", "g", "i", "n", "e", "e", "r">>,
                       <<"u", "s", "e", "r", " ", "i", "n", "t", "e", "r", "f", "a", "c", "e", " ", "d", "e", "v", "e", "l", "o", "p", "e", "r">>,
                       <<"r", "e", "a", "c", "t", " ", "d", "e", "v", "e", "l", "o", "p", "e", "r">>,
                       <<"a", "n", "g", "u", "l", "a", "r", " ", "d", "e", "v", "e", "l", "o", "p", "e", "r">>,
                       <<"v", "u", "e", " ", "d", "e", "v", "e", "l", "o", "p", "e", "r">>,
                       <<"v", "u", "e", ".", "j", "s", " ", "d", "e", "v", "e", "l", "o", "p", "e", "r">>,
                       <<"j", "a", "v", "a", "s", "c", "r", "i", "p", "t", " ", "d", "e", "v", "e", "l", "o", "p", "e", "r">>,
                       <<"t", "y", "p", "e", "s", "c", "r", "i", "p", "t", " ", "d", "e", "v", "e", "l", "o", "p", "e", "r">>,
                       <<"h", "t", "m", "l", "/", "c", "s", "s", " ", "d", "e", "v", "e", "l", "o", "p", "e", "r">>,
                       <<"w", "e", "b", " ", "u", "i", " ", "d", "e", "v", "e", "l", "o", "p", "e", "r">> >>],
       [role |-> "Backend Developer",
         keywords |-> << <<"b", "a", "c", "k", "e", "n", "d", " ", "d", "e", "v", "e", "l", "o", "p", "e", "r">>,
                       <<"b", "a", "c", "k", "-", "e", "n", "d", " ", "d", "e", "v", "e", "l", "o", "p", "e", "r">>,
                       <<"b", "a", "c", "k", " ", "e", "n", "d", " ", "d", "e", "v", "e", "l", "o", "p", "e", "r">>,
                       <<"s", "e", "r", "v", "e", "r", "-", "s", "i", "d", "e", " ", "d", "e", "v", "e", "l", "o", "p", "e", "r">>,
                       <<"a", "p", "i", " ", "d", "e", "v", "e", "l", "o", "p", "e", "r">>,
                       <<"m", "i", "c", "r", "o", "s", "e", "r", "v", "i", "c", "e", "s", " ", "d", "e", "v", "e", "l", "o", "p", "e", "r">>,
                       <<"n", "o", "d", "e", ".", "j", "s", " ", "d", "e", "v", "e", "l", "o", "p", "e", "r">>,
                       <<"p", "y", "t", "h", "o", "n", " ", "d", "e", "v", "e", "l", "o", "p", "e", "r">>,
                       <<"j", "a", "v", "a", " ", "d", "e", "v", "e", "l", "o", "p", "e", "r">>,
                       <<"c", "#", " ", "d", "e", "v", "e", "l", "o", "p", "e", "r">>,
                       <<".", "n", "e", "t", " ", "d", "e", "v", "e", "l", "o", "p", "e", "r">>,
                       <<"g", "o", " ", "d", "e", "v", "e", "l", "o", "p", "e", "r">>,
                       <<"g", "o", "l", "a", "n", "g", " ", "d", "e", "v", "e", "l", "o", "p", "e", "r">>,
                       <<"r", "u", "b", "y", " ", "d", "e", "v", "e", "l", "o", "p", "e", "r">>,
                       <<"p", "h", "p", " ", "b", "a", "c", "k", "e", "n", "d", " ", "d", "e", "v", "e", "l", "o", "p", "e", "r">> >>],
       [role |-> "Full Stack Developer",
         keywords |-> << <<"f", "u", "l", "l", " ", "s", "t", "a", "c", "k">>,
                       <<"f", "u", "l", "l", "s", "t", "a", "c", "k">>,
                       <<"f", "u", "l", "l", "-", "s", "t", "a", "c", "k", " ", "d", "e", "v", "e", "l", "o", "p", "e", "r">>,
                       <<"j", "a", "v", "a", "s", "c", "r", "i", "p", "t", " ", "f", "u", "l", "l", " ", "s", "t", "a", "c", "k">>,
                       <<"t", "y", "p", "e", "s", "c", "r", "i", "p", "t", " ", "f", "u", "l", "l", " ", "s", "t", "a", "c", "k">>,
                       <<"m", "e", "r", "n", " ", "s", "t", "a", "c", "k">>,
                       <<"m", "e", "a", "n", " ", "s", "t", "a", "c", "k">>,
                       <<"l", "a", "m", "p", " ", "s", "t", "a", "c", "k">> >>],
       [role |-> "Mobile Developer",
         keywords |-> << <<"m", "o", "b", "i", "l", "e", " ", "d", "e", "v", "e", "l", "o", "p", "e", "r">>,
                       <<"i", "o", "s", " ", "d", "e", "v", "e", "l", "o", "p", "e", "r">>,
                       <<"a", "n", "d", "r", "o", "i", "d", " ", "d", "e", "v", "e", "l", "o", "p", "e", "r">>,
                       <<"r", "e", "a", "c", "t", " ", "n", "a", "t", "i", "v", "e">>,
                       <<"m", "o", "b", "i", "l", "e", " ", "a", "p", "p", " ", "d", "e", "v", "e", "l", "o", "p", "e", "r">>,
                       <<"f", "l", "u", "t", "t", "e", "r", " ", "d", "e", "v", "e", "l", "o", "p", "e", "r">>,
                       <<"s", "w", "i", "f", "t", " ", "d", "e", "v", "e", "l", "o", "p", "e", "r">>,
                       <<"k", "o", "t", "l", "i", "n", " ", "d", "e", "v", "e", "l", "o", "p", "e", "r">>,
                       <<"m", "o", "b", "i", "l", "e", " ", "e", "n", "g", "i", "n", "e", "e", "r">> >>],
       [role |-> "Web Developer",
         keywords |-> << <<"w", "e", "b", " ", "d", "e", "v", "e", "l", "o", "p", "e", "r">>,
                       <<"w", "e", "b", "s", "i", "t", "e", " ", "d", "e", "v", "e", "l", "o", "p", "e", "r">>,
                       <<"w", "e", "b", " ", "a", "p", "p", "l", "i", "c", "a", "t", "i", "o", "n", " ", "d", "e", "v", "e", "l", "o", "p", "e", "r">>,
                       <<"p", "h", "p", " ", "d", "e", "v", "e", "l", "o", "p", "e", "r">>,
                       <<"w", "o", "r", "d", "p", "r", "e", "s", "s", " ", "d", "e", "v", "e", "l", "o", "p", "e", "r">>,
                       <<"d", "r", "u", "p", "a", "l", " ", "d", "e", "v", "e", "l", "o", "p", "e", "r">>,
                       <<"w", "e", "b", "s", "i", "t", "e", " ", "d", "e", "s", "i", "g", "n", "e", "r">> >>],
       [role |-> "Game Developer",
         keywords |-> << <<"g", "a", "m", "e", " ", "d", "e", "v", "e", "l", "o", "p", "e", "r">>,
                       <<"g", "a", "m", "e", " ", "s", "o", "f", "t", "w", "a", "r", "e", " ", "e", "n", "g", "i", "n", "e", "e", "r">>,
                       <<"u", "n", "i", "t", "y", " ", "d", "e", "v", "e", "l", "o", "p", "e", "r">>,
                       <<"g", "a", "m", "e", " ", "e", "n", "g", "i", "n", "e", "e", "r">>,
                       <<"u", "n", "r", "e", "a", "l", " ", "d", "e", "v", "e", "l", "o", "p", "e", "r">>,
                       <<"g", "a", "m", "e", " ", "p", "r", "o", "g", "r", "a", "m", "m", "e", "r">>,
                       <<"g", "a", "m", "e", "p", "l", "a", "y", " ", "p", "r", "o", "g", "r", "a", "m", "m", "e", "r">> >>],
       [role |-> "Embedded Systems Engineer",
         keywords |-> << <<"e", "m", "b", "e", "d", "d", "e", "d", " ", "s", "y", "s", "t", "e", "m", "s">>,
                       <<"f", "i", "r", "m", "w", "a", "r", "e", " ", "e", "n", "g", "i", "n", "e", "e", "r">>,
                       <<"e", "m", "b", "e", "d", "d", "e", "d", " ", "s", "o", "f", "t", "w", "a", "r", "e">>,
                       <<"e", "m", "b", "e", "d", "d", "e", "d", " ", "e", "n", "g", "i", "n", "e", "e", "r">>,
                       <<"i", "o", "t", " ", "d", "e", "v", "e", "l", "o", "p", "e", "r">>,
                       <<"i", "o", "t", " ", "e", "n", "g", "i", "n", "e", "e", "r">> >>],
       [role |-> "DevOps Engineer",
         keywords |-> << <<"d", "e", "v", "o", "p", "s", " ", "e", "n", "g", "i", "n", "e", "e", "r">>,
                       <<"s", "i", "t", "e", " ", "r", "e", "l", "i", "a", "b", "i", "l", "i", "t", "y", " ", "e", "n", "g", "i", "n", "e", "e", "r">>,
                       <<"s", "r", "e">>, <<"c", "i", "/", "c", "d", " ", "e", "n", "g", "i", "n", "e", "e", "r">>,
                       <<"d", "e", "v", "s", "e", "c", "o", "p", "s">>,
                       <<"d", "e", "v", "o", "p", "s", " ", "s", "p", "e", "c", "i", "a", "l", "i", "s", "t">>,
                       <<"b", "u", "i", "l", "d", " ", "e", "n", "g", "i", "n", "e", "e", "r">>,
                       <<"r", "e", "l", "e", "a", "s", "e", " ", "e", "n", "g", "i", "n", "e", "e", "r">> >>],
       [role |-> "Cloud Engineer",
         keywords |-> << <<"c", "l", "o", "u", "d", " ", "e", "n", "g", "i", "n", "e", "e", "r">>,
                       <<"a", "z", "u", "r", "e", " ", "e", "n", "g", "i", "n", "e", "e", "r">>,
                       <<"a", "w", "s", " ", "e", "n", "g", "i", "n", "e", "e", "r">>,
                       <<"c", "l", "o", "u", "d", " ", "a", "r", "c", "h", "i", "t", "e", "c", "t">>,
                       <<"s", "o", "l", "u", "t", "i", "o", "n", "s", " ", "e", "n", "g", "i", "n", "e", "e", "r">>,
                       <<"g", "c", "p", " ", "e", "n", "g", "i", "n", "e", "e", "r">>,
                       <<"c", "l", "o", "u", "d", " ", "i", "n", "f", "r", "a", "s", "t", "r", "u", "c", "t", "u", "r", "e", " ", "e", "n", "g", "i", "n", "e", "e", "r">>,
                       <<"c", "l", "o", "u", "d", " ", "s", "o", "l", "u", "t", "i", "o", "n", "s", " ", "a", "r", "c", "h", "i", "t", "e", "c", "t">> >>],
       [role |-> "Platform Engineer",
         keywords |-> << <<"p", "l", "a", "t", "f", "o", "r", "m", " ", "e", "n", "g", "i", "n", "e", "e", "r">>,
                       <<"i", "n", "f", "r", "a", "s", "t", "r", "u", "c", "t", "u", "r", "e", " ", "e", "n", "g", "i", "n", "e", "e", "r">>,
                       <<"s", "y", "s", "t", "e", "m", "s", " ", "e", "n", "g", "i", "n", "e", "e", "r">>,
                       <<"i", "n", "f", "r", "a", "s", "t", "r", "u", "c", "t", "u", "r", "e", " ", "a", "r", "c", "h", "i", "t", "e", "c", "t">> >>],
       [role |-> "Systems Administrator",
         keywords |-> << <<"s", "y", "s", "t", "e", "m", "s", " ", "a", "d", "m", "i", "n", "i", "s", "t", "r", "a", "t", "o", "r">>,
                       <<"i", "t", " ", "s", "u", "p", "p", "o", "r", "t">>,
                       <<"a", "p", "p", "l", "i", "c", "a", "t", "i", "o", "n", " ", "s", "u", "p", "p", "o", "r", "t">>,
                       <<"s", "e", "r", "v", "i", "c", "e", " ", "d", "e", "s", "k">>,
                       <<"s", "y", "s", "a", "d", "m", "i", "n">>,
                       <<"s", "y", "s", "t", "e", "m", " ", "a", "d", "m", "i", "n", "i", "s", "t", "r", "a", "t", "o", "r">>,
                       <<"i", "t", " ", "a", "d", "m", "i", "n", "i", "s", "t", "r", "a", "t", "o", "r">>,
                       <<"n", "e", "t", "w", "o", "r", "k", " ", "a", "d", "m", "i", "n", "i", "s", "t", "r", "a", "t", "o", "r">> >>],
       [role |-> "Network Engineer",
         keywords |-> << <<"n", "e", "t", "w", "o", "r", "k", " ", "e", "n", "g", "i", "n", "e", "e", "r">>,
                       <<"n", "e", "t", "w", "o", "r", "k", " ", "a", "r", "c", "h", "i", "t", "e", "c", "t">>,
                       <<"n", "e", "t", "w", "o", "r", "k", " ", "a", "d", "m", "i", "n", "i", "s", "t", "r", "a", "t", "o", "r">>,
                       <<"n", "e", "t", "w", "o", "r", "k", " ", "s", "e", "c", "u", "r", "i", "t", "y", " ", "e", "n", "g", "i", "n", "e", "e", "r">>,
                       <<"c", "i", "s", "c", "o", " ", "e", "n", "g", "i", "n", "e", "e", "r">>,
                       <<"l", "a", "n", "/", "w", "a", "n", " ", "e", "n", "g", "i", "n", "e", "e", "r">> >>],
       [role |-> "Cyber Security Engineer",
         keywords |-> << <<"c", "y", "b", "e", "r", " ", "s", "e", "c", "u", "r", "i", "t", "y">>,
                       <<"s", "e", "c", "u", "r", "i", "t", "y", " ", "a", "n", "a", "l", "y", "s", "t">>,
                       <<"i", "n", "f", "o", "s", "e", "c">>,
                       <<"d", "e", "t", "e", "c", "t", "i", "o", "n", " ", "e", "n", "g", "i", "n", "e", "e", "r">>,
                       <<"s", "e", "c", "u", "r", "i", "t", "y", " ", "e", "n", "g", "i", "n", "e", "e", "r">>,
                       <<"c", "y", "b", "e", "r", "s", "e", "c", "u", "r", "i", "t", "y">>,
                       <<"i", "n", "f", "o", "r", "m", "a", "t", "i", "o", "n", " ", "s", "e", "c", "u", "r", "i", "t", "y">>,
                       <<"s", "e", "c", "u", "r", "i", "t", "y", " ", "c", "o", "n", "s", "u", "l", "t", "a", "n", "t">>,
                       <<"p", "e", "n", "e", "t", "r", "a", "t", "i", "o", "n", " ", "t", "e", "s", "t", "e", "r">>,
                       <<"e", "t", "h", "i", "c", "a", "l", " ", "h", "a", "c", "k", "e", "r">>,
                       <<"s", "e", "c", "u", "r", "i", "t", "y", " ", "o", "p", "e", "r", "a", "t", "i", "o", "n", "s">> >>],
       [role |-> "QA Engineer",
         keywords |-> << <<"q", "a", " ", "e", "n", "g", "i", "n", "e", "e", "r">>,
                       <<"q", "u", "a", "l", "i", "t", "y", " ", "a", "s", "s", "u", "r", "a", "n", "c", "e", " ", "e", "n", "g", "i", "n", "e", "e", "r">>,
                       <<"q", "u", "a", "l", "i", "t", "y", " ", "e", "n", "g", "i", "n", "e", "e", "r">>,
                       <<"s", "o", "f", "t", "w", "a", "r", "e", " ", "t", "e", "s", "t", "e", "r">>,
                       <<"m", "a", "n", "u", "a", "l", " ", "t", "e", "s", "t", "e", "r">>,
                       <<"f", "u", "n", "c", "t", "i", "o", "n", "a", "l", " ", "t", "e", "s", "t", "e", "r">> >>],
       [role |-> "Test Automation Engineer",
         keywords |-> << <<"t", "e", "s", "t", " ", "a", "u", "t", "o", "m", "a", "t", "i", "o", "n", " ", "e", "n", "g", "i", "n", "e", "e", "r">>,
                       <<"a", "u", "t", "o", "m", "a", "t", "i", "o", "n", " ", "e", "n", "g", "i", "n", "e", "e", "r">>,
                       <<"a", "u", "t", "o", "m", "a", "t", "i", "o", "n", " ", "t", "e", "s", "t", "e", "r">>,
                       <<"t", "e", "s", "t", " ", "a", "u", "t", "o", "m", "a", "t", "i", "o", "n">>,
                       <<"s", "e", "l", "e", "n", "i", "u", "m", " ", "e", "n", "g", "i", "n", "e", "e", "r">>,
                       <<"a", "u", "t", "o", "m", "a", "t", "i", "o", "n", " ", "q", "a">>, <<"s", "d", "e", "t">>,
                       <<"s", "o", "f", "t", "w", "a", "r", "e", " ", "d", "e", "v", "e", "l", "o", "p", "m", "e", "n", "t", " ", "e", "n", "g", "i", "n", "e", "e", "r", " ", "i", "n", " ", "t", "e", "s", "t">>,
                       <<"a", "u", "t", "o", "m", "a", "t", "e", "d", " ", "t", "e", "s", "t", "i", "n", "g", " ", "e", "n", "g", "i", "n", "e", "e", "r">> >>],
       [role |-> "Performance Test Engineer",
         keywords |-> << <<"p", "e", "r", "f", "o", "r", "m", "a", "n", "c", "e", " ", "t", "e", "s", "t", " ", "e", "n", "g", "i", "n", "e", "e", "r">>,
                       <<"p", "e", "r", "f", "o", "r", "m", "a", "n", "c", "e", " ", "t", "e", "s", "t", "e", "r">>,
                       <<"l", "o", "a", "d", " ", "t", "e", "s", "t", " ", "e", "n", "g", "i", "n", "e", "e", "r">>,
                       <<"j", "m", "e", "t", "e", "r", " ", "e", "n", "g", "i", "n", "e", "e", "r">> >>],
       [role |-> "Blockchain Developer",
         keywords |-> << <<"b", "l", "o", "c", "k", "c", "h", "a", "i", "n", " ", "d", "e", "v", "e", "l", "o", "p", "e", "r">>,
                       <<"b", "l", "o", "c", "k", "c", "h", "a", "i", "n", " ", "e", "n", "g", "i", "n", "e", "e", "r">>,
                       <<"w", "e", "b", "3", " ", "d", "e", "v", "e", "l", "o", "p", "e", "r">>,
                       <<"s", "m", "a", "r", "t", " ", "c", "o", "n", "t", "r", "a", "c", "t", " ", "d", "e", "v", "e", "l", "o", "p", "e", "r">>,
                       <<"s", "o", "l", "i", "d", "i", "t", "y", " ", "d", "e", "v", "e", "l", "o", "p", "e", "r">>,
                       <<"c", "r", "y", "p", "t", "o", "c", "u", "r", "r", "e", "n", "c", "y", " ", "d", "e", "v", "e", "l", "o", "p", "e", "r">> >>],
       [role |-> "Computer Vision Engineer",
         keywords |-> << <<"c", "o", "m", "p", "u", "t", "e", "r", " ", "v", "i", "s", "i", "o", "n", " ", "e", "n", "g", "i", "n", "e", "e", "r">>,
                       <<"c", "o", "m", "p", "u", "t", "e", "r", " ", "v", "i", "s", "i", "o", "n">>,
                       <<"i", "m", "a", "g", "e", " ", "p", "r", "o", "c", "e", "s", "s", "i", "n", "g", " ", "e", "n", "g", "i", "n", "e", "e", "r">>,
                       <<"o", "p", "e", "n", "c", "v", " ", "d", "e", "v", "e", "l", "o", "p", "e", "r">>,
                       <<"v", "i", "s", "i", "o", "n", " ", "a", "i">> >>],
       [role |-> "Robotics Engineer",
         keywords |-> << <<"r", "o", "b", "o", "t", "i", "c", "s", " ", "e", "n", "g", "i", "n", "e", "e", "r">>,
                       <<"r", "o", "b", "o", "t", "i", "c", "s", " ", "d", "e", "v", "e", "l", "o", "p", "e", "r">>,
                       <<"a", "u", "t", "o", "m", "a", "t", "i", "o", "n", " ", "r", "o", "b", "o", "t", "i", "c", "s">>,
                       <<"r", "o", "s", " ", "d", "e", "v", "e", "l", "o", "p", "e", "r">>,
                       <<"r", "o", "b", "o", "t", "i", "c", " ", "s", "y", "s", "t", "e", "m", "s", " ", "e", "n", "g", "i", "n", "e", "e", "r">> >>],
       [role |-> "Graphics Engineer",
         keywords |-> << <<"g", "r", "a", "p", "h", "i", "c", "s", " ", "e", "n", "g", "i", "n", "e", "e", "r">>,
                       <<"g", "r", "a", "p", "h", "i", "c", "s", " ", "p", "r", "o", "g", "r", "a", "m", "m", "e", "r">>,
                       <<"r", "e", "n", "d", "e", "r", "i", "n", "g", " ", "e", "n", "g", "i", "n", "e", "e", "r">>,
                       <<"o", "p", "e", "n", "g", "l", " ", "d", "e", "v", "e", "l", "o", "p", "e", "r">>,
                       <<"d", "i", "r", "e", "c", "t", "x", " ", "d", "e", "v", "e", "l", "o", "p", "e", "r">>,
                       <<"s", "h", "a", "d", "e", "r", " ", "p", "r", "o", "g", "r", "a", "m", "m", "e", "r">> >>],
       [role |-> "UX/UI Designer",
         keywords |-> << <<"u", "x", " ", "d", "e", "s", "i", "g", "n", "e", "r">>,
                       <<"u", "i", " ", "d", "e", "s", "i", "g", "n", "e", "r">>,
                       <<"u", "x", "/", "u", "i", " ", "d", "e", "s", "i", "g", "n", "e", "r">>,
                       <<"u", "s", "e", "r", " ", "e", "x", "p", "e", "r", "i", "e", "n", "c", "e", " ", "d", "e", "s", "i", "g", "n", "e", "r">>,
                       <<"p", "r", "o", "d", "u", "c", "t", " ", "d", "e", "s", "i", "g", "n", "e", "r">>,
                       <<"i", "n", "t", "e", "r", "a", "c", "t", "i", "o", "n", " ", "d", "e", "s", "i", "g", "n", "e", "r">>,
                       <<"v", "i", "s", "u", "a", "l", " ", "d", "e", "s", "i", "g", "n", "e", "r">>,
                       <<"u", "s", "e", "r", " ", "i", "n", "t", "e", "r", "f", "a", "c", "e", " ", "d", "e", "s", "i", "g", "n", "e", "r">> >>],
       [role |-> "UX Researcher",
         keywords |-> << <<"u", "x", " ", "r", "e", "s", "e", "a", "r", "c", "h", "e", "r">>,
                       <<"u", "s", "e", "r", " ", "r", "e", "s", "e", "a", "r", "c", "h", "e", "r">>,
                       <<"u", "x", " ", "a", "n", "a", "l", "y", "s", "t">>,
                       <<"u", "s", "a", "b", "i", "l", "i", "t", "y", " ", "r", "e", "s", "e", "a", "r", "c", "h", "e", "r">>,
                       <<"u", "s", "e", "r", " ", "e", "x", "p", "e", "r", "i", "e", "n", "c", "e", " ", "r", "e", "s", "e", "a", "r", "c", "h", "e", "r">> >>],
       [role |-> "Software Engineer",
         keywords |-> << <<"s", "o", "f", "t", "w", "a", "r", "e", " ", "e", "n", "g", "i", "n", "e", "e", "r">>,
                       <<"p", "r", "o", "g", "r", "a", "m", "m", "e", "r">>,
                       <<"a", "p", "p", "l", "i", "c", "a", "t", "i", "o", "n", " ", "e", "n", "g", "i", "n", "e", "e", "r">>,
                       <<"a", "p", "p", " ", "e", "n", "g", "i", "n", "e", "e", "r">>,
                       <<"s", "o", "f", "t", "w", "a", "r", "e", " ", "d", "e", "v", "e", "l", "o", "p", "m", "e", "n", "t", " ", "e", "n", "g", "i", "n", "e", "e", "r">> >>],
       [role |-> "Software Developer",
         keywords |-> << <<"s", "o", "f", "t", "w", "a", "r", "e", " ", "d", "e", "v", "e", "l", "o", "p", "e", "r">>,
                       <<"d", "e", "v", "e", "l", "o", "p", "e", "r">> >>],
       [role |-> "Engineering Manager",
         keywords |-> << <<"e", "n", "g", "i", "n", "e", "e", "r", "i", "n", "g", " ", "m", "a", "n", "a", "g", "e", "r">>,
                       <<"h", "e", "a", "d", " ", "o", "f", " ", "e", "n", "g", "i", "n", "e", "e", "r", "i", "n", "g">>,
                       <<"d", "e", "v", "e", "l", "o", "p", "m", "e", "n", "t", " ", "m", "a", "n", "a", "g", "e", "r">>,
                       <<"t", "e", "a", "m", " ", "l", "e", "a", "d">>, <<"c", "t", "o">>,
                       <<"c", "h", "i", "e", "f", " ", "t", "e", "c", "h", "n", "o", "l", "o", "g", "y", " ", "o", "f", "f", "i", "c", "e", "r">>,
                       <<"v", "p", " ", "e", "n", "g", "i", "n", "e", "e", "r", "i", "n", "g">>,
                       <<"d", "i", "r", "e", "c", "t", "o", "r", " ", "o", "f", " ", "e", "n", "g", "i", "n", "e", "e", "r", "i", "n", "g">> >>],
       [role |-> "Product Manager",
         keywords |-> << <<"p", "r", "o", "d", "u", "c", "t", " ", "m", "a", "n", "a", "g", "e", "r">>,
                       <<"p", "r", "o", "d", "u", "c", "t", " ", "o", "w", "n", "e", "r">>,
                       <<"d", "i", "g", "i", "t", "a", "l", " ", "p", "r", "o", "d", "u", "c", "t", " ", "m", "a", "n", "a", "g", "e", "r">>,
                       <<"t", "e", "c", "h", "n", "i", "c", "a", "l", " ", "p", "r", "o", "d", "u", "c", "t", " ", "m", "a", "n", "a", "g", "e", "r">>,
                       <<"p", "r", "o", "d", "u", "c", "t", " ", "l", "e", "a", "d">> >>],
       [role |-> "Project Manager",
         keywords |-> << <<"p", "r", "o", "j", "e", "c", "t", " ", "m", "a", "n", "a", "g", "e", "r">>,
                       <<"t", "e", "c", "h", "n", "i", "c", "a", "l", " ", "p", "r", "o", "j", "e", "c", "t", " ", "m", "a", "n", "a", "g", "e", "r">>,
                       <<"i", "t", " ", "p", "r", "o", "j", "e", "c", "t", " ", "m", "a", "n", "a", "g", "e", "r">>,
                       <<"s", "c", "r", "u", "m", " ", "m", "a", "s", "t", "e", "r">>,
                       <<"a", "g", "i", "l", "e", " ", "c", "o", "a", "c", "h">>,
                       <<"d", "e", "l", "i", "v", "e", "r", "y", " ", "m", "a", "n", "a", "g", "e", "r">> >>],
       [role |-> "Business Analyst",
         keywords |-> << <<"b", "u", "s", "i", "n", "e", "s", "s", " ", "a", "n", "a", "l", "y", "s", "t">>,
                       <<"t", "e", "c", "h", "n", "i", "c", "a", "l", " ", "b", "u", "s", "i", "n", "e", "s", "s", " ", "a", "n", "a", "l", "y", "s", "t">>,
                       <<"p", "r", "o", "c", "e", "s", "s", " ", "a", "n", "a", "l", "y", "s", "t">>,
                       <<"s", "y", "s", "t", "e", "m", "s", " ", "a", "n", "a", "l", "y", "s", "t">>,
                       <<"r", "e", "q", "u", "i", "r", "e", "m", "e", "n", "t", "s", " ", "a", "n", "a", "l", "y", "s", "t">> >>],
       [role |-> "Solutions Architect",
         keywords |-> << <<"s", "o", "l", "u", "t", "i", "o", "n", "s", " ", "a", "r", "c", "h", "i", "t", "e", "c", "t">>,
                       <<"e", "n", "t", "e", "r", "p", "r", "i", "s", "e", " ", "a", "r", "c", "h", "i", "t", "e", "c", "t">>,
                       <<"t", "e", "c", "h", "n", "i", "c", "a", "l", " ", "a", "r", "c", "h", "i", "t", "e", "c", "t">>,
                       <<"s", "o", "l", "u", "t", "i", "o", "n", " ", "a", "r", "c", "h", "i", "t", "e", "c", "t">>,
                       <<"s", "o", "f", "t", "w", "a", "r", "e", " ", "a", "r", "c", "h", "i", "t", "e", "c", "t">>,
                       <<"s", "y", "s", "t", "e", "m", " ", "a", "r", "c", "h", "i", "t", "e", "c", "t">> >>],
       [role |-> "Quantitative Analyst",
         keywords |-> << <<"q", "u", "a", "n", "t", "i", "t", "a", "t", "i", "v", "e", " ", "a", "n", "a", "l", "y", "s", "t">>,
                       <<"q", "u", "a", "n", "t">>, <<"a", "c", "t", "u", "a", "r", "y">>,
                       <<"a", "l", "g", "o", "r", "i", "t", "h", "m", "i", "c", " ", "t", "r", "a", "d", "e", "r">>,
                       <<"q", "u", "a", "n", "t", "i", "t", "a", "t", "i", "v", "e", " ", "d", "e", "v", "e", "l", "o", "p", "e", "r">>,
                       <<"q", "u", "a", "n", "t", " ", "d", "e", "v", "e", "l", "o", "p", "e", "r">> >>],
       [role |-> "GIS Analyst",
         keywords |-> << <<"g", "i", "s", " ", "a", "n", "a", "l", "y", "s", "t">>, <<"g", "i", "s">>,
                       <<"s", "p", "a", "t", "i", "a", "l", " ", "a", "n", "a", "l", "y", "s", "t">>,
                       <<"g", "e", "o", "s", "p", "a", "t", "i", "a", "l">>,
                       <<"g", "i", "s", " ", "d", "e", "v", "e", "l", "o", "p", "e", "r">>,
                       <<"g", "e", "o", "s", "p", "a", "t", "i", "a", "l", " ", "a", "n", "a", "l", "y", "s", "t">> >>],
       [role |-> "Executive Leadership",
         keywords |-> << <<"h", "e", "a", "d", " ", "o", "f">>, <<"d", "i", "r", "e", "c", "t", "o", "r", " ", "o", "f">>,
                       <<"c", "h", "i", "e", "f">>, <<"p", "a", "r", "t", "n", "e", "r">>, <<"v", "p">>,
                       <<"v", "i", "c", "e", " ", "p", "r", "e", "s", "i", "d", "e", "n", "t">>,
                       <<"e", "x", "e", "c", "u", "t", "i", "v", "e">>, <<"c", "-", "l", "e", "v", "e", "l">> >>],
       [role |-> "Data Leadership",
         keywords |-> << <<"h", "e", "a", "d", " ", "o", "f", " ", "d", "a", "t", "a">>,
                       <<"m", "a", "n", "a", "g", "e", "r", " ", "d", "a", "t", "a">>,
                       <<"d", "a", "t", "a", " ", "m", "a", "n", "a", "g", "e", "r">>,
                       <<"d", "a", "t", "a", " ", "l", "e", "a", "d">>,
                       <<"m", "a", "s", "t", "e", "r", " ", "d", "a", "t", "a">>, <<"m", "d", "m">> >>],
       [role |-> "Technical Lead",
         keywords |-> << <<"t", "e", "c", "h", " ", "l", "e", "a", "d">>,
                       <<"t", "e", "c", "h", "n", "i", "c", "a", "l", " ", "l", "e", "a", "d">>,
                       <<"l", "e", "a", "d", " ", "d", "e", "v", "e", "l", "o", "p", "e", "r">>,
                       <<"d", "e", "l", "i", "v", "e", "r", "y", " ", "l", "e", "a", "d">>,
                       <<"i", "n", "i", "t", "i", "a", "t", "i", "v", "e", " ", "l", "e", "a", "d">>,
                       <<"a", "r", "c", "h", "i", "t", "e", "c", "t", "u", "r", "e", " ", "l", "e", "a", "d">> >>],
       [role |-> "Lecturer",
         keywords |-> << <<"l", "e", "c", "t", "u", "r", "e", "r">>, <<"p", "r", "o", "f", "e", "s", "s", "o", "r">>,
                       <<"p", "h", "d">>, <<"r", "e", "s", "e", "a", "r", "c", "h", " ", "f", "e", "l", "l", "o", "w">>,
                       <<"f", "a", "c", "u", "l", "t", "y">>,
                       <<"t", "e", "a", "c", "h", "i", "n", "g", " ", "s", "t", "a", "f", "f">>,
                       <<"a", "c", "a", "d", "e", "m", "i", "c">>, <<"t", "u", "t", "o", "r">>,
                       <<"i", "n", "s", "t", "r", "u", "c", "t", "o", "r">>, <<"e", "d", "u", "c", "a", "t", "o", "r">> >>],
       [role |-> "Health Informatics",
         keywords |-> << <<"c", "l", "i", "n", "i", "c", "a", "l", " ", "c", "o", "d", "e", "r">>,
                       <<"c", "l", "i", "n", "i", "c", "a", "l", " ", "d", "a", "t", "a">>, <<"e", "m", "r">>,
                       <<"c", "a", "s", "e", "m", "i", "x">>, <<"h", "e", "a", "l", "t", "h", " ", "d", "a", "t", "a">>,
                       <<"m", "e", "d", "i", "c", "a", "l", " ", "c", "o", "d", "e", "r">>,
                       <<"c", "o", "g", "n", "i", "t", "i", "v", "e", " ", "r", "a", "t", "e", "r">>,
                       <<"h", "e", "a", "l", "t", "h", " ", "i", "n", "f", "o", "r", "m", "a", "t", "i", "c", "s">>,
                       <<"c", "l", "i", "n", "i", "c", "a", "l", " ", "i", "n", "f", "o", "r", "m", "a", "t", "i", "c", "s">> >>],
       [role |-> "Data Governance & Compliance",
         keywords |-> << <<"d", "a", "t", "a", " ", "g", "o", "v", "e", "r", "n", "a", "n", "c", "e">>,
                       <<"d", "a", "t", "a", " ", "p", "r", "o", "t", "e", "c", "t", "i", "o", "n">>,
                       <<"d", "a", "t", "a", " ", "i", "n", "t", "e", "g", "r", "i", "t", "y">>,
                       <<"p", "r", "i", "v", "a", "c", "y">>, <<"c", "o", "m", "p", "l", "i", "a", "n", "c", "e">>,
                       <<"a", "u", "d", "i", "t">>, <<"r", "i", "s", "k">>, <<"p", "o", "l", "i", "c", "y">>,
                       <<"d", "a", "t", "a", " ", "q", "u", "a", "l", "i", "t", "y">>,
                       <<"d", "a", "t", "a", " ", "s", "t", "e", "w", "a", "r", "d">> >>],
       [role |-> "Strategy & Transformation",
         keywords |-> << <<"d", "i", "g", "i", "t", "a", "l", " ", "t", "r", "a", "n", "s", "f", "o", "r", "m", "a", "t", "i", "o", "n">>,
                       <<"s", "t", "r", "a", "t", "e", "g", "y">>, <<"r", "o", "a", "d", "m", "a", "p">>,
                       <<"c", "h", "a", "n", "g", "e", " ", "m", "a", "n", "a", "g", "e", "r">>,
                       <<"b", "u", "s", "i", "n", "e", "s", "s", " ", "d", "e", "v", "e", "l", "o", "p", "m", "e", "n", "t">>,
                       <<"t", "r", "a", "n", "s", "f", "o", "r", "m", "a", "t", "i", "o", "n", " ", "l", "e", "a", "d">>,
                       <<"i", "n", "n", "o", "v", "a", "t", "i", "o", "n", " ", "m", "a", "n", "a", "g", "e", "r">> >>],
       [role |-> "Technical Consultant",
         keywords |-> << <<"c", "o", "n", "s", "u", "l", "t", "a", "n", "t">>, <<"a", "d", "v", "i", "s", "o", "r">>,
                       <<"i", "m", "p", "l", "e", "m", "e", "n", "t", "a", "t", "i", "o", "n", " ", "s", "p", "e", "c", "i", "a", "l", "i", "s", "t">>,
                       <<"i", "n", "t", "e", "g", "r", "a", "t", "i", "o", "n", " ", "s", "p", "e", "c", "i", "a", "l", "i", "s", "t">>,
                       <<"s", "o", "l", "u", "t", "i", "o", "n", " ", "s", "p", "e", "c", "i", "a", "l", "i", "s", "t">>,
                       <<"t", "e", "c", "h", "n", "i", "c", "a", "l", " ", "a", "d", "v", "i", "s", "o", "r">>,
                       <<"i", "t", " ", "c", "o", "n", "s", "u", "l", "t", "a", "n", "t">> >>],
       [role |-> "Graduate Program",
         keywords |-> << <<"g", "r", "a", "d", "u", "a", "t", "e">>, <<"c", "a", "d", "e", "t">>,
                       <<"i", "n", "t", "e", "r", "n">>, <<"t", "r", "a", "i", "n", "e", "e">>,
                       <<"e", "a", "r", "l", "y", " ", "c", "a", "r", "e", "e", "r">>,
                       <<"d", "i", "g", "i", "t", "a", "l", " ", "f", "u", "t", "u", "r", "e", "s">>,
                       <<"g", "r", "a", "d", "u", "a", "t", "e", " ", "p", "r", "o", "g", "r", "a", "m">> >>],
       [role |-> "SEO & Digital Marketing",
         keywords |-> << <<"s", "e", "o">>,
                       <<"s", "e", "a", "r", "c", "h", " ", "e", "n", "g", "i", "n", "e", " ", "o", "p", "t", "i", "m", "i", "z", "a", "t", "i", "o", "n">>,
                       <<"d", "i", "g", "i", "t", "a", "l", " ", "m", "a", "r", "k", "e", "t", "i", "n", "g">>,
                       <<"m", "a", "r", "k", "e", "t", "i", "n", "g", " ", "t", "e", "c", "h", "n", "o", "l", "o", "g", "y">>,
                       <<"m", "a", "r", "t", "e", "c", "h">>,
                       <<"g", "r", "o", "w", "t", "h", " ", "h", "a", "c", "k", "e", "r">>,
                       <<"d", "i", "g", "i", "t", "a", "l", " ", "s", "t", "r", "a", "t", "e", "g", "i", "s", "t">> >>],
       [role |-> "Intelligence & Security",
         keywords |-> << <<"i", "n", "t", "e", "l", "l", "i", "g", "e", "n", "c", "e", " ", "o", "f", "f", "i", "c", "e", "r">>,
                       <<"t", "s", "p", "v">>,
                       <<"s", "e", "c", "u", "r", "i", "t", "y", " ", "c", "l", "e", "a", "r", "a", "n", "c", "e">>,
                       <<"d", "e", "f", "e", "n", "s", "e">>,
                       <<"i", "n", "t", "e", "l", "l", "i", "g", "e", "n", "c", "e", " ", "a", "n", "a", "l", "y", "s", "t">> >>] >>

\* ROLE_TAXONOMY of jobly/utils/scraper_utils.py, in its order
ROLE_TAXONOMY_JOBLY ==
    << [role |-> "AI Engineer",
         keywords |-> << <<"a", "i", "/", "m", "l", " ", "e", "n", "g", "i", "n", "e", "e", "r">>,
                       <<"a", "i", " ", "m", "l", " ", "e", "n", "g", "i", "n", "e", "e", "r">>,
                       <<"a", "i", " ", "/", " ", "m", "l">>, <<"a", "i", "/", "m", "l">>,
                       <<"a", "i", " ", "&", " ", "m", "l">>, <<"a", "i", " ", "e", "n", "g", "i", "n", "e", "e", "r">>,
                       <<"a", "i", " ", "s", "o", "f", "t", "w", "a", "r", "e", " ", "e", "n", "g", "i", "n", "e", "e", "r">>,
                       <<"a", "i", " ", "d", "e", "v", "e", "l", "o", "p", "e", "r">>,
                       <<"a", "i", " ", "s", "o", "f", "t", "w", "a", "r", "e", " ", "d", "e", "v", "e", "l", "o", "p", "e", "r">>,
                       <<"a", "i", " ", "p", "r", "o", "g", "r", "a", "m", "m", "e", "r">>,
                       <<"a", "r", "t", "i", "f", "i", "c", "i", "a", "l", " ", "i", "n", "t", "e", "l", "l", "i", "g", "e", "n", "c", "e", " ", "e", "n", "g", "i", "n", "e", "e", "r">>,
                       <<"g", "e", "n", "e", "r", "a", "t", "i", "v", "e", " ", "a", "i">>,
                       <<"g", "e", "n", "a", "i", " ", "e", "n", "g", "i", "n", "e", "e", "r">>,
                       <<"g", "e", "n", " ", "a", "i">>,
                       <<"g", "e", "n", "e", "r", "a", "t", "i", "v", "e", " ", "a", "i", " ", "e", "n", "g", "i", "n", "e", "e", "r">>,
                       <<"a", "i", " ", "p", "l", "a", "t", "f", "o", "r", "m", " ", "e", "n", "g", "i", "n", "e", "e", "r">>,
                       <<"a", "i", " ", "d", "e", "v", "o", "p", "s">>,
                       <<"a", "i", " ", "i", "n", "f", "r", "a", "s", "t", "r", "u", "c", "t", "u", "r", "e">>,
                       <<"a", "r", "t", "i", "f", "i", "c", "i", "a", "l", " ", "i", "n", "t", "e", "l", "l", "i", "g", "e", "n", "c", "e">> >>],
       [role |-> "Machine Learning Engineer",
         keywords |-> << <<"m", "a", "c", "h", "i", "n", "e", " ", "l", "e", "a", "r", "n", "i", "n", "g", " ", "e", "n", "g", "i", "n", "e", "e", "r">>,
                       <<"m", "l", " ", "e", "n", "g", "i", "n", "e", "e", "r">>,
                       <<"m", "a", "c", "h", "i", "n", "e", " ", "l", "e", "a", "r", "n", "i", "n", "g", " ", "d", "e", "v", "e", "l", "o", "p", "e", "r">>,
                       <<"m", "l", " ", "d", "e", "v", "e", "l", "o", "p", "e", "r">>,
                       <<"m", "l", "o", "p", "s", " ", "e", "n", "g", "i", "n", "e", "e", "r">>,
                       <<"m", "l", "o", "p", "s">>,
                       <<"d", "e", "e", "p", " ", "l", "e", "a", "r", "n", "i", "n", "g", " ", "e", "n", "g", "i", "n", "e", "e", "r">>,
                       <<"m", "l", " ", "s", "o", "f", "t", "w", "a", "r", "e", " ", "e", "n", "g", "i", "n", "e", "e", "r">> >>],
       [role |-> "NLP Engineer",
         keywords |-> << <<"n", "l", "p", " ", "e", "n", "g", "i", "n", "e", "e", "r">>,
                       <<"n", "a", "t", "u", "r", "a", "l", " ", "l", "a", "n", "g", "u", "a", "g", "e", " ", "p", "r", "o", "c", "e", "s", "s", "i", "n", "g">>,
                       <<"c", "o", "n", "v", "e", "r", "s", "a", "t", "i", "o", "n", "a", "l", " ", "a", "i">>,
                       <<"p", "r", "o", "m", "p", "t", " ", "e", "n", "g", "i", "n", "e", "e", "r">>,
                       <<"l", "l", "m", " ", "e", "n", "g", "i", "n", "e", "e", "r">>,
                       <<"l", "a", "r", "g", "e", " ", "l", "a", "n", "g", "u", "a", "g", "e", " ", "m", "o", "d", "e", "l">> >>],
       [role |-> "Research Scientist",
         keywords |-> << <<"r", "e", "s", "e", "a", "r", "c", "h", " ", "s", "c", "i", "e", "n", "t", "i", "s", "t">>,
                       <<"c", "o", "m", "p", "u", "t", "e", "r", " ", "s", "c", "i", "e", "n", "t", "i", "s", "t">>,
                       <<"a", "p", "p", "l", "i", "e", "d", " ", "s", "c", "i", "e", "n", "t", "i", "s", "t">>,
                       <<"r", "e", "s", "e", "a", "r", "c", "h", " ", "f", "e", "l", "l", "o", "w">>,
                       <<"c", "o", "m", "p", "u", "t", "a", "t", "i", "o", "n", "a", "l", " ", "s", "c", "i", "e", "n", "c", "e">>,
                       <<"r", "e", "s", "e", "a", "r", "c", "h", " ", "a", "s", "s", "i", "s", "t", "a", "n", "t">> >>],
       [role |-> "Data Scientist",
         keywords |-> << <<"d", "a", "t", "a", " ", "s", "c", "i", "e", "n", "t", "i", "s", "t">>,
                       <<"a", "p", "p", "l", "i", "e", "d", " ", "s", "c", "i", "e", "n", "t", "i", "s", "t">>,
                       <<"s", "p", "a", "t", "i", "a", "l", " ", "d", "a", "t", "a", " ", "s", "c", "i", "e", "n", "t", "i", "s", "t">> >>],
       [role |-> "Data Engineer",
         keywords |-> << <<"d", "a", "t", "a", " ", "e", "n", "g", "i", "n", "e", "e", "r">>,
                       <<"b", "i", "g", " ", "d", "a", "t", "a">>,
                       <<"e", "t", "l", " ", "d", "e", "v", "e", "l", "o", "p", "e", "r">>,
                       <<"a", "z", "u", "r", "e", " ", "d", "a", "t", "a", " ", "e", "n", "g", "i", "n", "e", "e", "r">>,
                       <<"d", "a", "t", "a", " ", "p", "i", "p", "e", "l", "i", "n", "e">> >>],
       [role |-> "Data Analyst",
         keywords |-> << <<"d", "a", "t", "a", " ", "a", "n", "a", "l", "y", "s", "t">>,
                       <<"r", "e", "p", "o", "r", "t", "i", "n", "g", " ", "a", "n", "a", "l", "y", "s", "t">>,
                       <<"i", "n", "s", "i", "g", "h", "t", "s", " ", "a", "n", "a", "l", "y", "s", "t">>,
                       <<"c", "o", "m", "m", "e", "r", "c", "i", "a", "l", " ", "a", "n", "a", "l", "y", "s", "t">> >>],
       [role |-> "Business Intelligence Analyst",
         keywords |-> << <<"b", "u", "s", "i", "n", "e", "s", "s", " ", "i", "n", "t", "e", "l", "l", "i", "g", "e", "n", "c", "e">>,
                       <<"b", "i", " ", "a", "n", "a", "l", "y", "s", "t">>,
                       <<"b", "i", " ", "d", "e", "v", "e", "l", "o", "p", "e", "r">>,
                       <<"p", "o", "w", "e", "r", " ", "b", "i">>, <<"t", "a", "b", "l", "e", "a", "u">>,
                       <<"a", "n", "a", "l", "y", "t", "i", "c", "s">> >>],
       [role |-> "Data Architect",
         keywords |-> << <<"d", "a", "t", "a", " ", "a", "r", "c", "h", "i", "t", "e", "c", "t">>,
                       <<"d", "a", "t", "a", " ", "m", "o", "d", "e", "l", "e", "r">>,
                       <<"d", "a", "t", "a", "b", "a", "s", "e", " ", "a", "r", "c", "h", "i", "t", "e", "c", "t">> >>],
       [role |-> "Database Administrator",
         keywords |-> << <<"d", "a", "t", "a", "b", "a", "s", "e", " ", "a", "d", "m", "i", "n", "i", "s", "t", "r", "a", "t", "o", "r">>,
                       <<"d", "a", "t", "a", "b", "a", "s", "e", " ", "d", "e", "v", "e", "l", "o", "p", "e", "r">>,
                       <<"s", "q", "l", " ", "d", "e", "v", "e", "l", "o", "p", "e", "r">>, <<"d", "b", "a">> >>],
       [role |-> "DevOps Engineer",
         keywords |-> << <<"d", "e", "v", "o", "p", "s", " ", "e", "n", "g", "i", "n", "e", "e", "r">>,
                       <<"s", "i", "t", "e", " ", "r", "e", "l", "i", "a", "b", "i", "l", "i", "t", "y", " ", "e", "n", "g", "i", "n", "e", "e", "r">>,
                       <<"s", "r", "e">>, <<"c", "i", "/", "c", "d", " ", "e", "n", "g", "i", "n", "e", "e", "r">>,
                       <<"d", "e", "v", "s", "e", "c", "o", "p", "s">> >>],
       [role |-> "Cloud Engineer",
         keywords |-> << <<"c", "l", "o", "u", "d", " ", "e", "n", "g", "i", "n", "e", "e", "r">>,
                       <<"a", "z", "u", "r", "e", " ", "e", "n", "g", "i", "n", "e", "e", "r">>,
                       <<"a", "w", "s", " ", "e", "n", "g", "i", "n", "e", "e", "r">>,
                       <<"c", "l", "o", "u", "d", " ", "a", "r", "c", "h", "i", "t", "e", "c", "t">>,
                       <<"s", "o", "l", "u", "t", "i", "o", "n", "s", " ", "e", "n", "g", "i", "n", "e", "e", "r">>,
                       <<"g", "c", "p", " ", "e", "n", "g", "i", "n", "e", "e", "r">> >>],
       [role |-> "Platform Engineer",
         keywords |-> << <<"p", "l", "a", "t", "f", "o", "r", "m", " ", "e", "n", "g", "i", "n", "e", "e", "r">>,
                       <<"i", "n", "f", "r", "a", "s", "t", "r", "u", "c", "t", "u", "r", "e", " ", "e", "n", "g", "i", "n", "e", "e", "r">>,
                       <<"s", "y", "s", "t", "e", "m", "s", " ", "e", "n", "g", "i", "n", "e", "e", "r">> >>],
       [role |-> "Systems Administrator",
         keywords |-> << <<"s", "y", "s", "t", "e", "m", "s", " ", "a", "d", "m", "i", "n", "i", "s", "t", "r", "a", "t", "o", "r">>,
                       <<"i", "t", " ", "s", "u", "p", "p", "o", "r", "t">>,
                       <<"a", "p", "p", "l", "i", "c", "a", "t", "i", "o", "n", " ", "s", "u", "p", "p", "o", "r", "t">>,
                       <<"s", "e", "r", "v", "i", "c", "e", " ", "d", "e", "s", "k">>,
                       <<"s", "y", "s", "a", "d", "m", "i", "n">> >>],
       [role |-> "Cyber Security Engineer",
         keywords |-> << <<"c", "y", "b", "e", "r", " ", "s", "e", "c", "u", "r", "i", "t", "y">>,
                       <<"s", "e", "c", "u", "r", "i", "t", "y", " ", "a", "n", "a", "l", "y", "s", "t">>,
                       <<"i", "n", "f", "o", "s", "e", "c">>,
                       <<"d", "e", "t", "e", "c", "t", "i", "o", "n", " ", "e", "n", "g", "i", "n", "e", "e", "r">>,
                       <<"s", "e", "c", "u", "r", "i", "t", "y", " ", "e", "n", "g", "i", "n", "e", "e", "r">>,
                       <<"c", "y", "b", "e", "r", "s", "e", "c", "u", "r", "i", "t", "y">> >>],
       [role |-> "QA Engineer",
         keywords |-> << <<"q", "a", " ", "e", "n", "g", "i", "n", "e", "e", "r">>,
                       <<"t", "e", "s", "t", " ", "e", "n", "g", "i", "n", "e", "e", "r">>,
                       <<"s", "o", "f", "t", "w", "a", "r", "e", " ", "t", "e", "s", "t", "e", "r">>,
                       <<"a", "u", "t", "o", "m", "a", "t", "i", "o", "n", " ", "e", "n", "g", "i", "n", "e", "e", "r">>,
                       <<"q", "u", "a", "l", "i", "t", "y", " ", "a", "s", "s", "u", "r", "a", "n", "c", "e">>,
                       <<"t", "e", "s", "t", " ", "a", "u", "t", "o", "m", "a", "t", "i", "o", "n">> >>],
       [role |-> "Embedded Systems Engineer",
         keywords |-> << <<"e", "m", "b", "e", "d", "d", "e", "d", " ", "s", "y", "s", "t", "e", "m", "s">>,
                       <<"f", "i", "r", "m", "w", "a", "r", "e", " ", "e", "n", "g", "i", "n", "e", "e", "r">>,
                       <<"e", "m", "b", "e", "d", "d", "e", "d", " ", "s", "o", "f", "t", "w", "a", "r", "e">>,
                       <<"e", "m", "b", "e", "d", "d", "e", "d", " ", "e", "n", "g", "i", "n", "e", "e", "r">> >>],
       [role |-> "Game Developer",
         keywords |-> << <<"g", "a", "m", "e", " ", "d", "e", "v", "e", "l", "o", "p", "e", "r">>,
                       <<"g", "a", "m", "e", " ", "s", "o", "f", "t", "w", "a", "r", "e", " ", "e", "n", "g", "i", "n", "e", "e", "r">>,
                       <<"u", "n", "i", "t", "y", " ", "d", "e", "v", "e", "l", "o", "p", "e", "r">>,
                       <<"g", "a", "m", "e", " ", "e", "n", "g", "i", "n", "e", "e", "r">> >>],
       [role |-> "Mobile Developer",
         keywords |-> << <<"m", "o", "b", "i", "l", "e", " ", "d", "e", "v", "e", "l", "o", "p", "e", "r">>,
                       <<"i", "o", "s", " ", "d", "e", "v", "e", "l", "o", "p", "e", "r">>,
                       <<"a", "n", "d", "r", "o", "i", "d", " ", "d", "e", "v", "e", "l", "o", "p", "e", "r">>,
                       <<"r", "e", "a", "c", "t", " ", "n", "a", "t", "i", "v", "e">>,
                       <<"m", "o", "b", "i", "l", "e", " ", "a", "p", "p", " ", "d", "e", "v", "e", "l", "o", "p", "e", "r">>,
                       <<"f", "l", "u", "t", "t", "e", "r">> >>],
       [role |-> "Web Developer",
         keywords |-> << <<"w", "e", "b", " ", "d", "e", "v", "e", "l", "o", "p", "e", "r">>,
                       <<"r", "e", "a", "c", "t", " ", "d", "e", "v", "e", "l", "o", "p", "e", "r">>,
                       <<"a", "n", "g", "u", "l", "a", "r", " ", "d", "e", "v", "e", "l", "o", "p", "e", "r">>,
                       <<"v", "u", "e", " ", "d", "e", "v", "e", "l", "o", "p", "e", "r">>,
                       <<"p", "h", "p", " ", "d", "e", "v", "e", "l", "o", "p", "e", "r">>,
                       <<"w", "e", "b", "s", "i", "t", "e", " ", "d", "e", "s", "i", "g", "n", "e", "r">>,
                       <<"f", "r", "o", "n", "t", "e", "n", "d", " ", "d", "e", "v", "e", "l", "o", "p", "e", "r">> >>],
       [role |-> "Full Stack Developer",
         keywords |-> << <<"f", "u", "l", "l", " ", "s", "t", "a", "c", "k">>,
                       <<"f", "u", "l", "l", "s", "t", "a", "c", "k">>,
                       <<"j", "a", "v", "a", "s", "c", "r", "i", "p", "t", " ", "f", "u", "l", "l", " ", "s", "t", "a", "c", "k">>,
                       <<"t", "y", "p", "e", "s", "c", "r", "i", "p", "t", " ", "f", "u", "l", "l", " ", "s", "t", "a", "c", "k">> >>],
       [role |-> "Software Engineer",
         keywords |-> << <<"s", "o", "f", "t", "w", "a", "r", "e", " ", "e", "n", "g", "i", "n", "e", "e", "r">>,
                       <<"d", "e", "v", "e", "l", "o", "p", "e", "r">>,
                       <<"p", "r", "o", "g", "r", "a", "m", "m", "e", "r">>, <<"b", "a", "c", "k", "e", "n", "d">>,
                       <<"f", "r", "o", "n", "t", "e", "n", "d">>,
                       <<"a", "p", "p", "l", "i", "c", "a", "t", "i", "o", "n", " ", "e", "n", "g", "i", "n", "e", "e", "r">>,
                       <<"a", "p", "p", " ", "e", "n", "g", "i", "n", "e", "e", "r">> >>],
       [role |-> "Engineering Manager",
         keywords |-> << <<"e", "n", "g", "i", "n", "e", "e", "r", "i", "n", "g", " ", "m", "a", "n", "a", "g", "e", "r">>,
                       <<"h", "e", "a", "d", " ", "o", "f", " ", "e", "n", "g", "i", "n", "e", "e", "r", "i", "n", "g">>,
                       <<"d", "e", "v", "e", "l", "o", "p", "m", "e", "n", "t", " ", "m", "a", "n", "a", "g", "e", "r">>,
                       <<"t", "e", "a", "m", " ", "l", "e", "a", "d">>, <<"c", "t", "o">>,
                       <<"c", "h", "i", "e", "f", " ", "t", "e", "c", "h", "n", "o", "l", "o", "g", "y", " ", "o", "f", "f", "i", "c", "e", "r">> >>],
       [role |-> "Product Manager",
         keywords |-> << <<"p", "r", "o", "d", "u", "c", "t", " ", "m", "a", "n", "a", "g", "e", "r">>,
                       <<"p", "r", "o", "d", "u", "c", "t", " ", "o", "w", "n", "e", "r">>,
                       <<"d", "i", "g", "i", "t", "a", "l", " ", "p", "r", "o", "d", "u", "c", "t", " ", "m", "a", "n", "a", "g", "e", "r">> >>],
       [role |-> "Business Analyst",
         keywords |-> << <<"b", "u", "s", "i", "n", "e", "s", "s", " ", "a", "n", "a", "l", "y", "s", "t">>,
                       <<"t", "e", "c", "h", "n", "i", "c", "a", "l", " ", "b", "u", "s", "i", "n", "e", "s", "s", " ", "a", "n", "a", "l", "y", "s", "t">>,
                       <<"p", "r", "o", "c", "e", "s", "s", " ", "a", "n", "a", "l", "y", "s", "t">> >>],
       [role |-> "Solutions Architect",
         keywords |-> << <<"s", "o", "l", "u", "t", "i", "o", "n", "s", " ", "a", "r", "c", "h", "i", "t", "e", "c", "t">>,
                       <<"e", "n", "t", "e", "r", "p", "r", "i", "s", "e", " ", "a", "r", "c", "h", "i", "t", "e", "c", "t">>,
                       <<"t", "e", "c", "h", "n", "i", "c", "a", "l", " ", "a", "r", "c", "h", "i", "t", "e", "c", "t">>,
                       <<"s", "o", "l", "u", "t", "i", "o", "n", " ", "a", "r", "c", "h", "i", "t", "e", "c", "t">> >>],
       [role |-> "Quantitative Analyst",
         keywords |-> << <<"q", "u", "a", "n", "t", "i", "t", "a", "t", "i", "v", "e", " ", "a", "n", "a", "l", "y", "s", "t">>,
                       <<"q", "u", "a", "n", "t">>, <<"a", "c", "t", "u", "a", "r", "y">>,
                       <<"a", "l", "g", "o", "r", "i", "t", "h", "m", "i", "c", " ", "t", "r", "a", "d", "e", "r">> >>],
       [role |-> "GIS Analyst",
         keywords |-> << <<"g", "i", "s", " ", "a", "n", "a", "l", "y", "s", "t">>, <<"g", "i", "s">>,
                       <<"s", "p", "a", "t", "i", "a", "l", " ", "a", "n", "a", "l", "y", "s", "t">>,
                       <<"g", "e", "o", "s", "p", "a", "t", "i", "a", "l">> >>],
       [role |-> "Technical Writer",
         keywords |-> << <<"t", "e", "c", "h", "n", "i", "c", "a", "l", " ", "w", "r", "i", "t", "e", "r">>,
                       <<"d", "o", "c", "u", "m", "e", "n", "t", "a", "t", "i", "o", "n", " ", "e", "n", "g", "i", "n", "e", "e", "r">> >>],
       [role |-> "Sales Engineer",
         keywords |-> << <<"s", "a", "l", "e", "s", " ", "e", "n", "g", "i", "n", "e", "e", "r">>,
                       <<"f", "i", "e", "l", "d", " ", "a", "p", "p", "l", "i", "c", "a", "t", "i", "o", "n", " ", "e", "n", "g", "i", "n", "e", "e", "r">>,
                       <<"p", "r", "e", "s", "a", "l", "e", "s", " ", "e", "n", "g", "i", "n", "e", "e", "r">> >>],
       [role |-> "Executive Leadership",
         keywords |-> << <<"h", "e", "a", "d", " ", "o", "f">>, <<"d", "i", "r", "e", "c", "t", "o", "r", " ", "o", "f">>,
                       <<"c", "h", "i", "e", "f">>, <<"p", "a", "r", "t", "n", "e", "r">>, <<"v", "p">>,
                       <<"v", "i", "c", "e", " ", "p", "r", "e", "s", "i", "d", "e", "n", "t">>,
                       <<"e", "x", "e", "c", "u", "t", "i", "v", "e">> >>],
       [role |-> "Data Leadership",
         keywords |-> << <<"h", "e", "a", "d", " ", "o", "f", " ", "d", "a", "t", "a">>,
                       <<"m", "a", "n", "a", "g", "e", "r", " ", "d", "a", "t", "a">>,
                       <<"d", "a", "t", "a", " ", "m", "a", "n", "a", "g", "e", "r">>,
                       <<"d", "a", "t", "a", " ", "l", "e", "a", "d">>,
                       <<"m", "a", "s", "t", "e", "r", " ", "d", "a", "t", "a">>, <<"m", "d", "m">> >>],
       [role |-> "Technical Lead",
         keywords |-> << <<"t", "e", "c", "h", " ", "l", "e", "a", "d">>,
                       <<"t", "e", "c", "h", "n", "i", "c", "a", "l", " ", "l", "e", "a", "d">>,
                       <<"l", "e", "a", "d", " ", "d", "e", "v", "e", "l", "o", "p", "e", "r">>,
                       <<"d", "e", "l", "i", "v", "e", "r", "y", " ", "l", "e", "a", "d">>,
                       <<"i", "n", "i", "t", "i", "a", "t", "i", "v", "e", " ", "l", "e", "a", "d">> >>],
       [role |-> "Lecturer",
         keywords |-> << <<"l", "e", "c", "t", "u", "r", "e", "r">>, <<"p", "r", "o", "f", "e", "s", "s", "o", "r">>,
                       <<"p", "h", "d">>, <<"r", "e", "s", "e", "a", "r", "c", "h", " ", "f", "e", "l", "l", "o", "w">>,
                       <<"f", "a", "c", "u", "l", "t", "y">>,
                       <<"t", "e", "a", "c", "h", "i", "n", "g", " ", "s", "t", "a", "f", "f">>,
                       <<"a", "c", "a", "d", "e", "m", "i", "c">>, <<"t", "u", "t", "o", "r">> >>],
       [role |-> "Health Informatics",
         keywords |-> << <<"c", "l", "i", "n", "i", "c", "a", "l", " ", "c", "o", "d", "e", "r">>,
                       <<"c", "l", "i", "n", "i", "c", "a", "l", " ", "d", "a", "t", "a">>, <<"e", "m", "r">>,
                       <<"c", "a", "s", "e", "m", "i", "x">>, <<"h", "e", "a", "l", "t", "h", " ", "d", "a", "t", "a">>,
                       <<"m", "e", "d", "i", "c", "a", "l", " ", "c", "o", "d", "e", "r">>,
                       <<"c", "o", "g", "n", "i", "t", "i", "v", "e", " ", "r", "a", "t", "e", "r">> >>],
       [role |-> "Data Governance & Compliance",
         keywords |-> << <<"d", "a", "t", "a", " ", "g", "o", "v", "e", "r", "n", "a", "n", "c", "e">>,
                       <<"d", "a", "t", "a", " ", "p", "r", "o", "t", "e", "c", "t", "i", "o", "n">>,
                       <<"d", "a", "t", "a", " ", "i", "n", "t", "e", "g", "r", "i", "t", "y">>,
                       <<"p", "r", "i", "v", "a", "c", "y">>, <<"c", "o", "m", "p", "l", "i", "a", "n", "c", "e">>,
                       <<"a", "u", "d", "i", "t">>, <<"r", "i", "s", "k">>, <<"p", "o", "l", "i", "c", "y">> >>],
       [role |-> "Strategy & Transformation",
         keywords |-> << <<"d", "i", "g", "i", "t", "a", "l", " ", "t", "r", "a", "n", "s", "f", "o", "r", "m", "a", "t", "i", "o", "n">>,
                       <<"s", "t", "r", "a", "t", "e", "g", "y">>, <<"r", "o", "a", "d", "m", "a", "p">>,
                       <<"c", "h", "a", "n", "g", "e", " ", "m", "a", "n", "a", "g", "e", "r">>,
                       <<"b", "u", "s", "i", "n", "e", "s", "s", " ", "d", "e", "v", "e", "l", "o", "p", "m", "e", "n", "t">> >>],
       [role |-> "Technical Consultant",
         keywords |-> << <<"c", "o", "n", "s", "u", "l", "t", "a", "n", "t">>, <<"a", "d", "v", "i", "s", "o", "r">>,
                       <<"i", "m", "p", "l", "e", "m", "e", "n", "t", "a", "t", "i", "o", "n", " ", "s", "p", "e", "c", "i", "a", "l", "i", "s", "t">>,
                       <<"i", "n", "t", "e", "g", "r", "a", "t", "i", "o", "n", " ", "s", "p", "e", "c", "i", "a", "l", "i", "s", "t">>,
                       <<"s", "o", "l", "u", "t", "i", "o", "n", " ", "s", "p", "e", "c", "i", "a", "l", "i", "s", "t">> >>],
       [role |-> "Graduate Program",
         keywords |-> << <<"g", "r", "a", "d", "u", "a", "t", "e">>, <<"c", "a", "d", "e", "t">>,
                       <<"i", "n", "t", "e", "r", "n">>, <<"t", "r", "a", "i", "n", "e", "e">>,
                       <<"e", "a", "r", "l", "y", " ", "c", "a", "r", "e", "e", "r">>,
                       <<"d", "i", "g", "i", "t", "a", "l", " ", "f", "u", "t", "u", "r", "e", "s">> >>],
       [role |-> "Technical Support",
         keywords |-> << <<"s", "u", "p", "p", "o", "r", "t", " ", "a", "d", "v", "i", "s", "o", "r">>,
                       <<"h", "e", "l", "p", " ", "d", "e", "s", "k">>,
                       <<"s", "e", "r", "v", "i", "c", "e", " ", "d", "e", "s", "k">>,
                       <<"s", "u", "p", "p", "o", "r", "t", " ", "s", "p", "e", "c", "i", "a", "l", "i", "s", "t">>,
                       <<"t", "e", "c", "h", "n", "i", "c", "a", "l", " ", "s", "u", "p", "p", "o", "r", "t">> >>],
       [role |-> "Operations & Logistics",
         keywords |-> << <<"c", "o", "o", "r", "d", "i", "n", "a", "t", "o", "r">>,
                       <<"s", "c", "h", "e", "d", "u", "l", "e", "r">>, <<"l", "o", "g", "i", "s", "t", "i", "c", "s">>,
                       <<"w", "e", "i", "g", "h", "b", "r", "i", "d", "g", "e">>,
                       <<"g", "a", "t", "e", "h", "o", "u", "s", "e">> >>],
       [role |-> "SEO & Digital Marketing",
         keywords |-> << <<"s", "e", "o">>,
                       <<"s", "e", "a", "r", "c", "h", " ", "e", "n", "g", "i", "n", "e", " ", "o", "p", "t", "i", "m", "i", "z", "a", "t", "i", "o", "n">>,
                       <<"d", "i", "g", "i", "t", "a", "l", " ", "m", "a", "r", "k", "e", "t", "i", "n", "g">>,
                       <<"m", "a", "r", "k", "e", "t", "i", "n", "g", " ", "t", "e", "c", "h", "n", "o", "l", "o", "g", "y">>,
                       <<"m", "a", "r", "t", "e", "c", "h">> >>],
       [role |-> "Intelligence & Security",
         keywords |-> << <<"i", "n", "t", "e", "l", "l", "i", "g", "e", "n", "c", "e", " ", "o", "f", "f", "i", "c", "e", "r">>,
                       <<"t", "s", "p", "v">>,
                       <<"s", "e", "c", "u", "r", "i", "t", "y", " ", "c", "l", "e", "a", "r", "a", "n", "c", "e">>,
                       <<"d", "e", "f", "e", "n", "s", "e">> >>] >>

\* role_indicators
RoleIndicators ==
    << <<"d", "a", "t", "a">>, <<"s", "o", "f", "t", "w", "a", "r", "e">>, <<"c", "y", "b", "e", "r">>,
       <<"s", "e", "c", "u", "r", "i", "t", "y">>, <<"c", "l", "o", "u", "d">>,
       <<"d", "e", "v", "o", "p", "s">>, <<"e", "n", "g", "i", "n", "e", "e", "r">>,
       <<"d", "e", "v", "e", "l", "o", "p", "e", "r">>, <<"a", "n", "a", "l", "y", "s", "t">>,
       <<"s", "c", "i", "e", "n", "t", "i", "s", "t">>, <<"a", "r", "c", "h", "i", "t", "e", "c", "t">>,
       <<"m", "a", "c", "h", "i", "n", "e", " ", "l", "e", "a", "r", "n", "i", "n", "g">>,
       <<"a", "r", "t", "i", "f", "i", "c", "i", "a", "l", " ", "i", "n", "t", "e", "l", "l", "i", "g", "e", "n", "c", "e">>,
       <<"a", "i">>, <<"m", "l">>, <<"f", "r", "o", "n", "t", "e", "n", "d">>,
       <<"b", "a", "c", "k", "e", "n", "d">>, <<"f", "u", "l", "l", " ", "s", "t", "a", "c", "k">>,
       <<"f", "u", "l", "l", "s", "t", "a", "c", "k">>, <<"m", "o", "b", "i", "l", "e">>,
       <<"w", "e", "b">>, <<"i", "o", "s">>, <<"a", "n", "d", "r", "o", "i", "d">>, <<"q", "a">>,
       <<"t", "e", "s", "t">>, <<"a", "u", "t", "o", "m", "a", "t", "i", "o", "n">>,
       <<"b", "u", "s", "i", "n", "e", "s", "s">>, <<"p", "r", "o", "d", "u", "c", "t">>,
       <<"p", "r", "o", "j", "e", "c", "t">>, <<"c", "o", "n", "s", "u", "l", "t", "i", "n", "g">> >>

\* re.sub(r'\([^)]*\)', ' ', s): the text left of i is done and gave acc
RECURSIVE RemoveParentheses(_, _, _)
RemoveParentheses(s, i, acc) ==
    LET opens == {j \in i..Len(s) : s[j] = "(" /\ \E c \in (j + 1)..Len(s) : s[c] = ")"}
    IN  IF opens = {} THEN acc \o SubSeq(s, i, Len(s))
        ELSE LET open == Min(opens)
                 close == Min({c \in (open + 1)..Len(s) : s[c] = ")"})
             IN  RemoveParentheses(s, close + 1, acc \o SubSeq(s, i, open - 1) \o <<" ">>)

YearSeparators == Whitespace \cup {"/", "-"}

\* the index after the match of \b20\d{2}(?:[\s/-]*\d{2,4})?\b at s[i], 0 for
\* none: the optional group matches when two to four digits end at a boundary
YearEnd(s, i) ==
    LET j == i + 4
        k == Run(YearSeparators, s, j)
        e == Run(Digits, s, k)
    IN  IF ~(/\ WordBoundary(s, i) /\ At(<<"2", "0">>, s, i) /\ j - 1 <= Len(s)
             /\ s[i + 2] \in Digits /\ s[i + 3] \in Digits)
        THEN 0
        ELSE IF e - k \in 2..4 /\ WordBoundary(s, e) THEN e
        ELSE IF WordBoundary(s, j) THEN j
        ELSE 0

\* re.sub(r'\b20\d{2}(?:[\s/-]*\d{2,4})?\b', ' ', s)
RECURSIVE RemoveYears(_, _, _)
RemoveYears(s, i, acc) ==
    LET starts == {j \in i..Len(s) : YearEnd(s, j) # 0}
    IN  IF starts = {} THEN acc \o SubSeq(s, i, Len(s))
        ELSE LET start == Min(starts)
             IN  RemoveYears(s, YearEnd(s, start), acc \o SubSeq(s, i, start - 1) \o <<" ">>)

\* re.sub(rf'\b{re.escape(word)}\b', ' ', s)
RECURSIVE SubWord(_, _, _, _)
SubWord(word, s, i, acc) ==
    LET starts == {j \in i..Len(s) : /\ At(word, s, j) /\ WordBoundary(s, j)
                                      /\ WordBoundary(s, j + Len(word))}
    IN  IF starts = {} THEN acc \o SubSeq(s, i, Len(s))
        ELSE LET start == Min(starts)
             IN  SubWord(word, s, start + Len(word), acc \o SubSeq(s, i, start - 1) \o <<" ">>)

\* for word in STOP_WORDS: cleaned = re.sub(...)
RECURSIVE RemoveStopWords(_, _)
RemoveStopWords(cleaned, k) ==
    IF cleaned = <<>> \/ k > Len(STOP_WORDS) THEN cleaned
    ELSE RemoveStopWords(SubWord(STOP_WORDS[k], cleaned, 1, <<>>), k + 1)

\* step 1 of extract_job_role with company_name None
CleanTitle(title) ==
    Strip(CollapseWhitespace(RemoveStopWords(
        RemoveYears(RemoveParentheses(Lower(title), 1, <<>>), 1, <<>>), 1)))

\* (program|programme|development\s+programme)\b at s[k]; the internship
\* pattern has no development alternative
ProgramAt(s, k, development) ==
    \/ \E p \in {<<"p", "r", "o", "g", "r", "a", "m">>, <<"p", "r", "o", "g", "r", "a", "m", "m", "e">>} : At(p, s, k) /\ WordBoundary(s, k + Len(p))
    \/ /\ development
       /\ At(<<"d", "e", "v", "e", "l", "o", "p", "m", "e", "n", "t">>, s, k)
       /\ LET d == k + Len(<<"d", "e", "v", "e", "l", "o", "p", "m", "e", "n", "t">>)
              m == Run(Whitespace, s, d)
          IN  m > d /\ At(<<"p", "r", "o", "g", "r", "a", "m", "m", "e">>, s, m) /\ WordBoundary(s, m + Len(<<"p", "r", "o", "g", "r", "a", "m", "m", "e">>))

\* re.search(r'\b(first words)\s+(program ...)\b', title_lower)
ProgramPattern(first, development, title_lower) ==
    \E i \in 1..Len(title_lower) : \E w \in first :
        /\ WordBoundary(title_lower, i) /\ At(w, title_lower, i)
        /\ LET j == i + Len(w)
               k == Run(Whitespace, title_lower, j)
           IN  k > j /\ ProgramAt(title_lower, k, development)

HasGraduateProgram(title_lower) ==
    ProgramPattern({<<"g", "r", "a", "d", "u", "a", "t", "e">>, <<"g", "r", "a", "d">>}, TRUE, title_lower)

HasInternshipProgram(title_lower) ==
    ProgramPattern({<<"i", "n", "t", "e", "r", "n", "s", "h", "i", "p">>, <<"i", "n", "t", "e", "r", "n">>}, FALSE, title_lower)

\* for indicator in role_indicators: if indicator in title_lower
HasSpecificRole(title_lower) ==
    \E k \in 1..Len(RoleIndicators) : In(RoleIndicators[k], title_lower)

\* step 0: the early return of "Graduate Program"
EarlyGraduateProgram(title) ==
    LET title_lower == Lower(title)
    IN  /\ HasGraduateProgram(title_lower) \/ HasInternshipProgram(title_lower)
        /\ ~HasSpecificRole(title_lower)

\* matches is not empty for the role's keywords
HasMatch(keywords, cleaned) ==
    \E k \in 1..Len(keywords) : In(keywords[k], cleaned)

\* no role of the taxonomy has a keyword in the cleaned title
NoRole == ""

\* a walk that ignores the taxonomy's order: the role owning the longest
\* keyword found in the cleaned title
LongestKeywordRole(taxonomy, k, cleaned) ==
    LET found == UNION {{<<r, w>> : w \in {x \in 1..Len(taxonomy[r].keywords) :
                                              In(taxonomy[r].keywords[x], cleaned)}} :
                        r \in k..Len(taxonomy)}
    IN  IF found = {} THEN NoRole
        ELSE LET best == CHOOSE f \in found : \A g \in found :
                             \/ Len(taxonomy[f[1]].keywords[f[2]]) > Len(taxonomy[g[1]].keywords[g[2]])
                             \/ /\ Len(taxonomy[f[1]].keywords[f[2]]) = Len(taxonomy[g[1]].keywords[g[2]])
                                /\ f[1] <= g[1]
             IN  taxonomy[best[1]].role

\* for role, keywords in ROLE_TAXONOMY.items(): roles k.. are still to try
RECURSIVE FirstRole(_, _, _)
FirstRole(taxonomy, k, cleaned) ==
    IF k > Len(taxonomy) THEN NoRole
    ELSE IF HasMatch(taxonomy[k].keywords, cleaned) THEN taxonomy[k].role
         ELSE FirstRole(taxonomy, k + 1, cleaned)

\* steps 1 and 2: NoRole when the walk ends without a match
Classify(title, taxonomy) ==
    LET cleaned == CleanTitle(title)
    IN  IF cleaned = <<>> THEN "Specialized"
        ELSE FirstRole(taxonomy, 1, cleaned)

\* aujobsscraper extract_job_role up to the fallback
KeywordStages(title) ==
    IF title = <<>> THEN "Specialized"
    ELSE IF EarlyGraduateProgram(title) THEN "Graduate Program"
    ELSE Classify(title, ROLE_TAXONOMY)

\* jobly extract_job_role up to the fallback: it has no step 0
KeywordStagesJobly(title) ==
    IF title = <<>> THEN "Specialized"
    ELSE Classify(title, ROLE_TAXONOMY_JOBLY)

\* step 3; embedding is what the fallback comes to: the role most similar
\* to the cleaned title when its similarity reaches the threshold,
\* "Specialized" when it does not or the provider raises
Fallback(role, embedding) == IF role = NoRole THEN embedding ELSE role

\* aujobsscraper extract_job_role
ExtractJobRole(title, embedding) == Fallback(KeywordStages(title), embedding)

\* jobly extract_job_role
ExtractJobRoleJobly(title, embedding) ==
    Fallback(KeywordStagesJobly(title), embedding)

\* the pieces titles are made of: role phrases, the two program phrases and
\* their variants, a discipline, a word that holds an indicator inside it, a
\* seniority word, a parenthesis and a year range
TitlePieces ==
    { <<"S", "o", "f", "t", "w", "a", "r", "e", " ", "E", "n", "g", "i", "n", "e", "e", "r">>,
      <<" ", "-", " ", "A", "I", "/", "M", "L">>,
      <<"G", "r", "a", "d", "u", "a", "t", "e", " ", "P", "r", "o", "g", "r", "a", "m">>,
      <<"D", "a", "t", "a", " ", "S", "c", "i", "e", "n", "c", "e", " ">>,
      <<"R", "e", "t", "a", "i", "l", " ">>,
      <<"S", "e", "n", "i", "o", "r", " ">>,
      <<" ", "T", "a", "b", "l", "e", "a", "u", " ", "C", "o", "n", "s", "u", "l", "t", "a", "n", "t">>,
      <<"I", "n", "t", "e", "r", "n", "s", "h", "i", "p", " ", "P", "r", "o", "g", "r", "a", "m", "m", "e">>,
      <<" ", "(", "2", "0", "2", "5", ")">>,
      <<"2", "0", "2", "5", "/", "2", "6", " ">>,
      <<" ", "C", "a", "d", "e", "t">>,
      <<"G", "r", "a", "d", " ", "D", "e", "v", "e", "l", "o", "p", "m", "e", "n", "t", " ", " ", "P", "r", "o", "g", "r", "a", "m", "m", "e">> }

\* what the fallback can come to
EmbeddingAnswers == {"Specialized", "Data Scientist", "Software Engineer"}

\* the title: the pieces joined
RECURSIVE Joined(_)
Joined(pieces) ==
    IF pieces = <<>> THEN <<>> ELSE Head(pieces) \o Joined(Tail(pieces))

InitRole ==
    /\ InitDb /\ faults = 0 /\ InitFpIdle /\ InitScIdle /\ InitLateIdle
    /\ locInput = <<>> /\ locOutput = [aus |-> <<>>, jobly |-> <<>>]
    /\ salTokens = <<>> /\ salText = <<>>
    /\ salResult = [parser |-> NoSalary, normalizer |-> NoSalary]
    /\ roleTitle = <<>>
    /\ roleResult = [aus |-> ExtractJobRole(<<>>, "Specialized"),
                     jobly |-> ExtractJobRoleJobly(<<>>, "Specialized")]

\* the title grows by one piece and both classifiers are run on it, with
\* some answer of the embedding provider
RoleAppend(piece) ==
    /\ Len(roleTitle) < MaxWords
    /\ roleTitle' = Append(roleTitle, piece)
    /\ LET title == Joined(roleTitle')
           aus == KeywordStages(title)
           jobly == KeywordStagesJobly(title)
       IN  \E embedding \in EmbeddingAnswers :
               roleResult' = [aus |-> Fallback(aus, embedding),
                              jobly |-> Fallback(jobly, embedding)]
    /\ UNCHANGED <<dbVars, fpVars, scVars, locVars, salVars, lateVars>>

NextRole == \E piece \in TitlePieces : RoleAppend(piece)

SpecRole == InitRole /\ [][NextRole]_vars

(***************************************************************************)
(* Properties of the job-role classifier                                   *)
(***************************************************************************)

\* the title given to the classifiers
RoleTitle == Joined(roleTitle)

\* the places in the taxonomy of the roles with a keyword in the text
MatchingRoles(taxonomy, cleaned) ==
    {k \in 1..Len(taxonomy) : HasMatch(taxonomy[k].keywords, cleaned)}

\* the first of several matching roles, NoRole when fewer than two match
FirstOfSeveral(taxonomy, cleaned) ==
    LET matching == MatchingRoles(taxonomy, cleaned)
    IN  IF Cardinality(matching) >= 2 THEN taxonomy[Min(matching)].role ELSE NoRole

\* the call computes a cleaned title: it does not return at step 0
ReachesCleaning(title) == title # <<>> /\ ~EarlyGraduateProgram(title)

EarlyReturnSkipsWalk ==
    RoleTitle # <<>> /\ EarlyGraduateProgram(RoleTitle)
        => roleResult.aus = "Graduate Program"

\* the indicator stands in the title as a token, between word boundaries
HasIndicatorToken(title_lower) ==
    \E k \in 1..Len(RoleIndicators) : \E i \in 1..Len(title_lower) :
        /\ At(RoleIndicators[k], title_lower, i)
        /\ WordBoundary(title_lower, i)
        /\ WordBoundary(title_lower, i + Len(RoleIndicators[k]))

MatchesProgramPattern(title) ==
    HasGraduateProgram(Lower(title)) \/ HasInternshipProgram(Lower(title))

\* C20: a title that matches the graduate-program or internship-program
\* pattern and contains no specific-discipline indicator token classifies as
\* "Graduate Program"; one that does contain such a token is classified by
\* its discipline: "Data Science Graduate Program" gives "Data Scientist".
C20_GraduateProgramDisambiguation ==
    /\ MatchesProgramPattern(RoleTitle) /\ ~HasIndicatorToken(Lower(RoleTitle))
           => roleResult.aus = "Graduate Program" /\ roleResult.jobly = "Graduate Program"
    /\ RoleTitle = <<"D", "a", "t", "a", " ", "S", "c", "i", "e", "n", "c", "e", " ", "G", "r", "a", "d", "u", "a", "t", "e", " ", "P", "r", "o", "g", "r", "a", "m">>
           => roleResult.aus = "Data Scientist" /\ roleResult.jobly = "Data Scientist"

\* what aujobsscraper does keep: the pattern without an indicator anywhere
\* in the title, inside a word or not, gives "Graduate Program"
GraduateProgramWithoutIndicatorSubstring ==
    MatchesProgramPattern(RoleTitle) /\ ~HasSpecificRole(Lower(RoleTitle))
        => roleResult.aus = "Graduate Program"

\* the first half of C20 for aujobsscraper alone: violated by an indicator
\* inside a word
GraduateProgramWithoutIndicatorToken ==
    MatchesProgramPattern(RoleTitle) /\ ~HasIndicatorToken(Lower(RoleTitle))
        => roleResult.aus = "Graduate Program"

\* the second half of C20 for aujobsscraper alone: violated, the title has no
\* keyword of the taxonomy and goes to the fallback
DataScienceProgramIsDataScientist ==
    RoleTitle = <<"D", "a", "t", "a", " ", "S", "c", "i", "e", "n", "c", "e", " ", "G", "r", "a", "d", "u", "a", "t", "e", " ", "P", "r", "o", "g", "r", "a", "m">> => roleResult.aus = "Data Scientist"

-----------------------------------------------------------------------------
(***************************************************************************)
(* The embedding fallback of extract_job_role and its lazily built state:  *)
(* _get_embedding_model and step 3 of extract_job_role, the same text in   *)
(* aujobsscraper/utils/scraper_utils.py and jobly/utils/scraper_utils.py,  *)
(* each module with its own two globals.  A call is one step: the function *)
(* is synchronous.  The provider's part of a call is drawn by the          *)
(* environment: the set of provider operations that raise when they are    *)
(* tried, and the role the similarities make best ("Specialized" when the  *)
(* best similarity is under the threshold).                                *)
(***************************************************************************)

Impls == {"aus", "jobly"}

\* the provider operations a call may try: the import and construction of
\* OpenAIEmbeddings, embed_documents of the role names, embed_query
ProviderSteps == {"init", "embed_documents", "embed_query"}

\* _get_embedding_model: the globals it leaves and the exception it raises
\* ("none" when it returns)
GetEmbeddingModel(model, embeddings, fails) ==
    IF model # "None"
    THEN [model |-> model, embeddings |-> embeddings, raised |-> "none"]
    ELSE IF "init" \in fails
    THEN [model |-> "None", embeddings |-> embeddings, raised |-> "init"]
    ELSE IF "embed_documents" \in fails
    THEN [model |-> "OpenAIEmbeddings", embeddings |-> embeddings,
          raised |-> "embed_documents"]
    ELSE [model |-> "OpenAIEmbeddings", embeddings |-> "embeddings",
          raised |-> "none"]

\* the try block of step 3: the globals it leaves, what it returns and the
\* exception raised in it.  Iterating role_embeddings that is None is a
\* TypeError.
TryEmbedding(model, embeddings, fails, best) ==
    LET got == GetEmbeddingModel(model, embeddings, fails)
        raised == IF got.raised # "none" THEN got.raised
                  ELSE IF "embed_query" \in fails THEN "embed_query"
                  ELSE IF got.embeddings = "None" THEN "TypeError"
                  ELSE "none"
    IN  [model |-> got.model, embeddings |-> got.embeddings, raised |-> raised,
         returned |-> IF raised = "none" THEN best ELSE "raise"]

\* the handler that lets every exception through
ExceptNothing(returned) == returned

\* except Exception: return "Specialized"
ExceptException(returned) ==
    IF returned = "raise" THEN "Specialized" ELSE returned

\* the titles of the calls: one with a keyword, one returned at step 0 and
\* one that reaches the fallback in both implementations
EmbTitles ==
    { <<"S", "o", "f", "t", "w", "a", "r", "e", " ", "E", "n", "g", "i", "n", "e", "e", "r">>, <<"G", "r", "a", "d", "u", "a", "t", "e", " ", "P", "r", "o", "g", "r", "a", "m">>, <<"R", "e", "t", "a", "i", "l", " ">> }

InitEmb ==
    /\ InitEarlyIdle
    /\ InitLateIdle

\* what a call that did not reach the fallback leaves in embCall
NoProviderCall(impl) ==
    [impl |-> impl, fails |-> {}, raised |-> "none", best |-> "Specialized"]

\* the results after a call of one implementation: its return value, and
\* the value no call has replaced for the other
ResultOf(impl, returned) ==
    [i \in Impls |-> IF i = impl THEN returned ELSE "Specialized"]

\* extract_job_role(title) of one implementation
ExtractJobRoleCall(impl, title) ==
    LET stage == IF impl = "aus" THEN KeywordStages(title)
                 ELSE KeywordStagesJobly(title)
    IN  /\ roleTitle' = <<title>>
        /\ IF stage # NoRole
           THEN /\ roleResult' = ResultOf(impl, stage)
                /\ embCall' = NoProviderCall(impl)
                /\ UNCHANGED <<embedding_model, role_embeddings>>
           ELSE \E fails \in SUBSET ProviderSteps, best \in EmbeddingAnswers :
                    LET try == TryEmbedding(embedding_model[impl],
                                            role_embeddings[impl], fails, best)
                    IN  /\ roleResult' =
                               ResultOf(impl, Fallback(stage, ExceptException(try.returned)))
                        /\ embCall' = [impl |-> impl, fails |-> fails,
                                       raised |-> try.raised, best |-> best]
                        /\ embedding_model' = [embedding_model EXCEPT ![impl] = try.model]
                        /\ role_embeddings' =
                               [role_embeddings EXCEPT ![impl] = try.embeddings]
        /\ UNCHANGED <<dbVars, fpVars, scVars, locVars, salVars, indeedVars, pageVars,
                       workerVars, procVars>>

NextEmb ==
    \E impl \in Impls, title \in EmbTitles : ExtractJobRoleCall(impl, title)

SpecEmb == InitEmb /\ [][NextEmb]_vars

\* the last call reached the fallback and a provider operation raised in it
ProviderRaised == embCall.raised \in ProviderSteps

\* C21: extract_job_role never raises because of the embedding provider:
\* when initializing the provider, embedding the role names or embedding the
\* title fails, the call returns "Specialized"
C21_ProviderFailureGivesSpecialized ==
    embCall.impl \in Impls =>
        /\ roleResult[embCall.impl] # "raise"
        /\ ProviderRaised => roleResult[embCall.impl] = "Specialized"

\* a call in which the provider had been built and embed_query raised
C21_Witness ==
    /\ embCall.raised = "embed_query"
    /\ embedding_model[embCall.impl] = "OpenAIEmbeddings"
    /\ role_embeddings[embCall.impl] = "embeddings"
    /\ roleResult[embCall.impl] = "Specialized"

\* C30: the lazily built embedding state is never half-built: whenever the
\* cached model is set, the cached role embeddings are set too
C30_NeverHalfBuilt ==
    \A impl \in Impls :
        embedding_model[impl] # "None" => role_embeddings[impl] # "None"

\* the consequence C30 draws: a call that reaches the fallback while every
\* provider operation works returns the role the provider makes best
WorkingProviderAnswers ==
    [][\A impl \in Impls :
          /\ ExtractJobRoleCall(impl, <<"R", "e", "t", "a", "i", "l", " ">>)
          /\ embCall'.fails = {}
          => roleResult'[impl] = embCall'.best]_vars

\* once half-built, the state stays half-built: no later call rebuilds it
HalfBuiltIsPermanent ==
    [][\A impl \in Impls :
          embedding_model[impl] # "None" /\ role_embeddings[impl] = "None"
          => embedding_model'[impl] # "None" /\ role_embeddings'[impl] = "None"]_vars

\* a failed construction of the model leaves nothing behind, and a state that
\* was built whole stays whole
BuiltStaysBuilt ==
    [][\A impl \in Impls :
          role_embeddings[impl] # "None" => role_embeddings'[impl] # "None"]_vars

-----------------------------------------------------------------------------
(***************************************************************************)
(* IndeedScraper.scrape (aujobsscraper/scrapers/indeed_scraper.py): one    *)
(* task per search term, each fetching under a semaphore of                *)
(* term_concurrency permits in a worker thread; asyncio.gather with        *)
(* return_exceptions=True; then one synchronous pass over the terms in     *)
(* their order.  A fetched row is its job_url and its description; the     *)
(* location of an Indeed posting is never empty (_extract_locations puts   *)
(* "Australia") and its platform is "indeed".                              *)
(***************************************************************************)

MaxTerms == 2

NoTotal == [none |-> TRUE, n |-> 0]
Total(n) == [none |-> FALSE, n |-> n]

Row(job_url, description) == [job_url |-> job_url, description |-> description]

\* what _scrape_jobs_for_term returns for one term
IndeedRows ==
    { <<>>,
      <<Row("u1", DescGood)>>,
      <<Row("u1", DescGood), Row("u2", DescGood)>>,
      <<Row("u2", DescBad), Row("u2", DescGood)>>,
      <<Row("", DescGood), Row("u1", DescGood), Row("u1", DescPadded)>> }

\* the outcome of one term's task: the rows it returned or the exception
Fetched(fetched) == [raised |-> FALSE, rows |-> fetched]
FetchRaised == [raised |-> TRUE, rows |-> <<>>]

Task(state, outcome) == [state |-> state, outcome |-> outcome]

\* format_jobpost: source_urls of the posting made from a row
SourceUrls(row) == IF row.job_url # "" THEN <<row.job_url>> ELSE <<>>

\* JobPosting.validate of a posting made by format_jobpost has no errors
IndeedValid(row) ==
    SourceUrls(row) # <<>> /\ ~DescriptionTooShort(row.description)

\* the posting collected from row i of a term
Posting(term, i, row) == [term |-> term, i |-> i, source_urls |-> SourceUrls(row)]

\* the test that lets every posting through
NeverSeen(urls, seen_urls) == FALSE

\* `urls and any(url in seen_urls for url in urls)`
AlreadySeen(urls, seen_urls) ==
    urls # <<>> /\ \E k \in 1..Len(urls) : urls[k] \in seen_urls

\* the loop over one term's records from record i on; acc holds _results,
\* seen_urls and whether scrape has returned inside the loop
RECURSIVE CollectRecords(_, _, _, _, _)
CollectRecords(term, records, i, acc, cfg) ==
    IF acc.returned \/ i > Len(records) THEN acc
    ELSE LET urls == SourceUrls(records[i])
         IN  IF \E k \in 1..Len(urls) : urls[k] \in cfg.skip_urls
             THEN CollectRecords(term, records, i + 1, acc, cfg)
             ELSE IF AlreadySeen(urls, acc.seen_urls)
             THEN CollectRecords(term, records, i + 1, acc, cfg)
             ELSE LET collected == IF IndeedValid(records[i])
                                   THEN Append(acc.results, Posting(term, i, records[i]))
                                   ELSE acc.results
                      total == cfg.results_wanted_total
                  IN  CollectRecords(term, records, i + 1,
                          [results |-> collected,
                           seen_urls |-> acc.seen_urls \cup Range(urls),
                           returned |-> ~total.none /\ Len(collected) >= total.n],
                          cfg)

\* the loop over zip(search_terms, term_results) from term on
RECURSIVE CollectTerms(_, _, _, _)
CollectTerms(term_results, term, acc, cfg) ==
    IF acc.returned \/ term > Len(term_results) THEN acc
    ELSE IF term_results[term].raised
    THEN CollectTerms(term_results, term + 1, acc, cfg)
    ELSE CollectTerms(term_results, term + 1,
                      CollectRecords(term, term_results[term].rows, 1, acc, cfg), cfg)

\* gather that lets the first exception through
GatherRaising(term_results) ==
    [raised |-> \E t \in 1..Len(term_results) : term_results[t].raised,
     values |-> term_results]

\* asyncio.gather(*tasks, return_exceptions=True)
Gather(term_results) == [raised |-> FALSE, values |-> term_results]

\* the scrapers that are constructed
InitIndeed ==
    /\ InitEarlyIdle
    /\ InitEmbIdle
    /\ InitPageIdle
    /\ InitWorkersIdle
    /\ InitProcIdle
    /\ \E n \in 1..MaxTerms, c \in 1..2, total \in {NoTotal, Total(1), Total(2)} :
           indeedCfg = [search_terms |-> n, term_concurrency |-> c,
                        results_wanted_total |-> total, skip_urls |-> {}]
    /\ indeedTasks = <<>>
    /\ indeedOut = [status |-> "idle", results |-> <<>>]

IndeedFrame ==
    UNCHANGED <<dbVars, fpVars, scVars, pureVars, embVars, pageVars, workerVars,
                procVars>>

\* scrape(skip_urls) up to the await of gather: the tasks are created
IndeedScrape(skip_urls) ==
    /\ indeedOut.status # "gathering"
    /\ indeedCfg' = [indeedCfg EXCEPT !.skip_urls = skip_urls]
    /\ indeedTasks' = [t \in 1..indeedCfg.search_terms |-> Task("waiting", Fetched(<<>>))]
    /\ indeedOut' = [status |-> "gathering", results |-> <<>>]
    /\ IndeedFrame

Running == {t \in 1..Len(indeedTasks) : indeedTasks[t].state = "running"}
Waiting == {t \in 1..Len(indeedTasks) : indeedTasks[t].state = "waiting"}

\* _scrape_term_with_limit enters the semaphore: the tasks enter in the
\* order they were created, while a permit is free
AcquireTerm(t) ==
    /\ indeedOut.status = "gathering"
    /\ t \in Waiting /\ \A u \in Waiting : t <= u
    /\ Cardinality(Running) < indeedCfg.term_concurrency
    /\ indeedTasks' = [indeedTasks EXCEPT ![t].state = "running"]
    /\ UNCHANGED <<indeedCfg, indeedOut>>
    /\ IndeedFrame

\* the thread of one term ends: _scrape_jobs_for_term returned or raised
FinishTerm(t, outcome) ==
    /\ indeedOut.status = "gathering"
    /\ t \in Running
    /\ indeedTasks' = [indeedTasks EXCEPT ![t] = Task("done", outcome)]
    /\ UNCHANGED <<indeedCfg, indeedOut>>
    /\ IndeedFrame

\* gather returns and the loop over the terms runs to the return
IndeedAggregate ==
    /\ indeedOut.status = "gathering"
    /\ \A t \in 1..Len(indeedTasks) : indeedTasks[t].state = "done"
    /\ LET gathered == Gather([t \in 1..Len(indeedTasks) |-> indeedTasks[t].outcome])
       IN  IF gathered.raised
           THEN indeedOut' = [status |-> "raised", results |-> <<>>]
           ELSE indeedOut' =
                  [status |-> "returned",
                   results |-> CollectTerms(gathered.values, 1,
                                   [results |-> <<>>, seen_urls |-> {}, returned |-> FALSE],
                                   indeedCfg).results]
    /\ UNCHANGED <<indeedCfg, indeedTasks>>
    /\ IndeedFrame

NextIndeed ==
    \/ \E skip_urls \in {{}, {"u1"}} : IndeedScrape(skip_urls)
    \/ \E t \in 1..MaxTerms : AcquireTerm(t)
    \/ \E t \in 1..MaxTerms, fetched \in IndeedRows : FinishTerm(t, Fetched(fetched))
    \/ \E t \in 1..MaxTerms : FinishTerm(t, FetchRaised)
    \/ IndeedAggregate

SpecIndeed == InitIndeed /\ [][NextIndeed]_vars

\* the last scrape has ended
IndeedEnded == indeedOut.status \in {"returned", "raised"}

\* the source URLs of the returned postings, in their order
ReturnedUrls ==
    [k \in 1..Len(indeedOut.results) |-> indeedOut.results[k].source_urls[1]]

\* the terms whose fetch raised, and those whose fetch returned
FailedTerms == {t \in 1..Len(indeedTasks) : indeedTasks[t].outcome.raised}
FetchedTerms == (1..Len(indeedTasks)) \ FailedTerms

\* C23: the postings IndeedScraper.scrape returns never include two with
\* the same source URL, nor one whose source URL is in skip_urls
C23_ReturnedUrlsUniqueAndNotSkipped ==
    indeedOut.status = "returned" =>
        /\ \A k \in 1..Len(indeedOut.results) :
               Len(indeedOut.results[k].source_urls) = 1
        /\ \A j, k \in 1..Len(ReturnedUrls) :
               ReturnedUrls[j] = ReturnedUrls[k] => j = k
        /\ \A k \in 1..Len(ReturnedUrls) : ReturnedUrls[k] \notin indeedCfg.skip_urls

\* two terms fetched the same URL, one of them twice, and a posting of each
\* term was returned
C23_Witness ==
    /\ indeedOut.status = "returned"
    /\ Len(indeedTasks) = 2
    /\ \A t \in 1..2 : \E i \in 1..Len(indeedTasks[t].outcome.rows) :
           indeedTasks[t].outcome.rows[i].job_url = "u1"
    /\ \E i, j \in 1..Len(indeedTasks[1].outcome.rows) :
           i # j /\ indeedTasks[1].outcome.rows[i].job_url
                      = indeedTasks[1].outcome.rows[j].job_url
    /\ {indeedOut.results[k].term : k \in 1..Len(indeedOut.results)} = {1, 2}

\* the scrape went through all records: it did not return at
\* results_wanted_total
NotCutShort ==
    \/ indeedCfg.results_wanted_total.none
    \/ Len(indeedOut.results) < indeedCfg.results_wanted_total.n

\* row i of term t is the first fetched record with its URL, in the order
\* of the terms and of each term's records
FirstWithUrl(t, i) ==
    \A u \in FetchedTerms : \A j \in 1..Len(indeedTasks[u].outcome.rows) :
        indeedTasks[u].outcome.rows[j].job_url = indeedTasks[t].outcome.rows[i].job_url
        => u > t \/ (u = t /\ j >= i)

ReturnedWereFetched ==
    \A k \in 1..Len(indeedOut.results) :
        LET p == indeedOut.results[k]
        IN  /\ p.term \in FetchedTerms
            /\ p.i \in 1..Len(indeedTasks[p.term].outcome.rows)
            /\ IndeedValid(indeedTasks[p.term].outcome.rows[p.i])

\* a valid row is returned whenever its URL is new, also when the earlier
\* record with its URL was not valid
ValidUrlIsReturned ==
    indeedOut.status = "returned" /\ NotCutShort =>
        \A t \in FetchedTerms :
            \A i \in 1..Len(indeedTasks[t].outcome.rows) :
                LET row == indeedTasks[t].outcome.rows[i]
                IN  IndeedValid(row) /\ row.job_url \notin indeedCfg.skip_urls
                    => \E k \in 1..Len(ReturnedUrls) : ReturnedUrls[k] = row.job_url

AtMostTotal ==
    indeedOut.status = "returned" /\ ~indeedCfg.results_wanted_total.none
    => Len(indeedOut.results) <= indeedCfg.results_wanted_total.n

\* at most term_concurrency fetches are in their thread at once
TermConcurrency == Cardinality(Running) <= indeedCfg.term_concurrency

-----------------------------------------------------------------------------
(***************************************************************************)
(* The page-based scrapers: SeekScraper.scrape and ProspleScraper.scrape   *)
(* of aujobsscraper, and ProspleScraper.scrape of jobly.  One step is one  *)
(* pass of the loop over listing pages: _get_job_links (which turns its    *)
(* own errors into an empty list), the filter of known URLs and            *)
(* process_jobs_concurrently, whose workers are modelled on their own      *)
(* below.  The listing page's links, the number of them that end as a      *)
(* collected posting and whether processing raises are drawn by the        *)
(* environment.                                                            *)
(***************************************************************************)

MaxKeywords == 2
MaxPages == 2
\* listing pages the model lets the loop without a page limit request
MaxRequests == 4

PageScrapers == {"seek", "prosple", "prosple_jobly"}

\* what _get_job_links returns
ListingLinks == {<<>>, <<"u1">>, <<"u1", "u2">>, <<"u3">>}

\* seek: settings.max_pages; prosple: `settings.max_pages if
\* settings.initial_run else settings.prosple_regular_max_pages`
PageLimit(cfg) ==
    IF cfg.scraper = "prosple" /\ ~cfg.initial_run
    THEN cfg.prosple_regular_max_pages
    ELSE cfg.max_pages

\* the scrapers whose loop over listing pages has a limit
HasPageLimit(cfg) == cfg.scraper \in {"seek", "prosple"}

\* the URLs the filter of a listing page leaves out: skip_urls in seek,
\* seen_urls (skip_urls and all links processed so far) in prosple, the
\* URLs the database holds in jobly
KnownUrls == IF pageCfg.scraper = "seek" THEN pageCfg.skip_urls ELSE pageRun.seen_urls

NewLinks(links) == SelectSeq(links, LAMBDA url : url \notin KnownUrls)

\* the postings a listing page adds to _results
PagePostings(new_links, done, keyword, page) ==
    [i \in 1..done |-> [url |-> new_links[i], keyword |-> keyword, page |-> page]]

InitPages ==
    /\ InitEarlyIdle
    /\ InitEmbIdle
    /\ InitIndeedIdle
    /\ InitWorkersIdle
    /\ InitProcIdle
    /\ \E scraper \in PageScrapers, keywords \in 1..MaxKeywords, initial_run \in BOOLEAN,
          max_pages \in 1..MaxPages, regular \in 1..MaxPages :
           pageCfg = [scraper |-> scraper,
                      keywords |-> IF scraper = "prosple_jobly" THEN 1 ELSE keywords,
                      initial_run |-> initial_run, max_pages |-> max_pages,
                      prosple_regular_max_pages |-> regular,
                      consumer |-> "await", skip_urls |-> {}]
    /\ pageRun = [status |-> "idle", keyword |-> 0, page_count |-> 0,
                  requests |-> <<>>, last |-> <<>>, seen_urls |-> {},
                  _results |-> <<>>]
    /\ pageOut = [pages |-> <<>>, received |-> <<>>]

PageFrame ==
    UNCHANGED <<dbVars, fpVars, scVars, pureVars, embVars, indeedVars, workerVars,
                procVars>>

\* the caller awaits scraper.scrape(skip_urls): the coroutine runs up to
\* its first listing page
PageScrapeAwait(skip_urls) ==
    /\ pageRun.status = "idle"
    /\ pageCfg' = [pageCfg EXCEPT !.consumer = "await", !.skip_urls = skip_urls]
    /\ pageRun' = [status |-> "running", keyword |-> 1, page_count |-> 0,
                   requests |-> [k \in 1..pageCfg.keywords |-> 0],
                   last |-> [k \in 1..pageCfg.keywords |-> "none"],
                   seen_urls |-> skip_urls, _results |-> <<>>]
    /\ UNCHANGED pageOut
    /\ PageFrame

\* the caller iterates `async for batch in scraper.scrape(skip_urls)`:
\* scrape() gives a coroutine, which has no __aiter__, and the statement
\* raises TypeError before the coroutine has run
PageScrapeAsyncFor(skip_urls) ==
    /\ pageRun.status = "idle"
    /\ HasPageLimit(pageCfg)
    /\ pageCfg' = [pageCfg EXCEPT !.consumer = "async for", !.skip_urls = skip_urls]
    /\ pageRun' = [pageRun EXCEPT !.status = "TypeError"]
    /\ UNCHANGED pageOut
    /\ PageFrame

\* the loops after this pass: on to the next listing page of the keyword,
\* or on to the next keyword, or out of both loops to the return
AfterPass(run, leaves_keyword) ==
    IF ~leaves_keyword THEN [run EXCEPT !.page_count = @ + 1]
    ELSE IF run.keyword < pageCfg.keywords
    THEN [run EXCEPT !.keyword = @ + 1, !.page_count = 0]
    ELSE [run EXCEPT !.status = "returned"]

\* what the caller has received once the scrape is in state run: `return
\* self._results` hands the whole list to the awaiting caller; jobly's
\* scrape returns nothing
Received(run) ==
    IF run.status = "returned" /\ HasPageLimit(pageCfg)
    THEN Append(pageOut.received, run._results)
    ELSE pageOut.received

\* one pass of the loop over listing pages
ListingPage(links, done, raises) ==
    /\ pageRun.status = "running"
    /\ HasPageLimit(pageCfg) \/ pageRun.requests[pageRun.keyword] < MaxRequests
    /\ LET k == pageRun.keyword
           new_links == NewLinks(links)
           asked == [pageRun EXCEPT !.requests[k] = @ + 1,
                                    !.last[k] = IF links = <<>> THEN "empty"
                                                ELSE IF raises THEN "raised"
                                                ELSE "links"]
           last_page == HasPageLimit(pageCfg) /\ pageRun.page_count + 1 >= PageLimit(pageCfg)
       IN  /\ done \in 0..Len(new_links)
           /\ links = <<>> => done = 0 /\ ~raises
           /\ IF links = <<>>
              THEN /\ pageRun' = AfterPass(asked, TRUE)
                   /\ pageOut' = [pageOut EXCEPT !.received = Received(pageRun')]
              ELSE LET processed ==
                         [asked EXCEPT
                            !.seen_urls = IF pageCfg.scraper = "seek" THEN @
                                          ELSE @ \cup Range(new_links),
                            !._results = @ \o PagePostings(new_links, done, k,
                                                           asked.requests[k])]
                   IN  /\ pageRun' =
                             IF raises
                             THEN AfterPass(processed,
                                            pageCfg.scraper # "seek" \/ last_page)
                             ELSE AfterPass(processed, last_page)
                       /\ pageOut' =
                             [pages |-> IF new_links # <<>>
                                        THEN Append(pageOut.pages,
                                                    PagePostings(new_links, done, k,
                                                                 asked.requests[k]))
                                        ELSE pageOut.pages,
                              received |-> Received(pageRun')]
    /\ UNCHANGED pageCfg
    /\ PageFrame

NextPages ==
    \/ \E skip_urls \in {{}, {"u1"}} : PageScrapeAwait(skip_urls)
    \/ \E skip_urls \in {{}, {"u1"}} : PageScrapeAsyncFor(skip_urls)
    \/ \E links \in ListingLinks, done \in 0..2, raises \in BOOLEAN :
          ListingPage(links, done, raises)

SpecPages == InitPages /\ [][NextPages]_vars

\* the postings of all listing pages, in one list
RECURSIVE Flatten(_)
Flatten(lists) ==
    IF lists = <<>> THEN <<>> ELSE Head(lists) \o Flatten(Tail(lists))

\* C22: scrape() of each page-based scraper of aujobsscraper is an async
\* generator that yields one batch per listing page that had links to
\* process, each batch holding exactly the postings collected from that
\* page: what the caller has received is at every moment the list of the
\* pages' postings, and iterating over scrape() does not fail
C22_OneBatchPerListingPage ==
    HasPageLimit(pageCfg) =>
        /\ pageRun.status # "TypeError"
        /\ pageOut.received = pageOut.pages

\* what the code does instead: nothing reaches the caller before the
\* return, and the return hands over one list with the postings of all
\* listing pages
OneListAtReturn ==
    HasPageLimit(pageCfg) =>
        pageOut.received = IF pageRun.status = "returned"
                           THEN <<Flatten(pageOut.pages)>> ELSE <<>>

\* the page limit the settings give a prosple scraper
ProspleLimit(cfg) ==
    IF cfg.initial_run THEN cfg.max_pages ELSE cfg.prosple_regular_max_pages

\* C26: ProspleScraper.scrape requests at most the configured page limit of
\* listing pages per keyword (settings.max_pages on an initial run,
\* settings.prosple_regular_max_pages on a regular run)
C26_ProspleRequestsWithinLimit ==
    pageCfg.scraper \in {"prosple", "prosple_jobly"} =>
        \A k \in 1..Len(pageRun.requests) :
            pageRun.requests[k] <= ProspleLimit(pageCfg)

\* the limit holds in aujobsscraper, for prosple and for seek
LimitedRequestsWithinLimit ==
    HasPageLimit(pageCfg) =>
        \A k \in 1..Len(pageRun.requests) :
            pageRun.requests[k] <= PageLimit(pageCfg)

\* no scraper asks for another listing page of a keyword after one that
\* gave no links
StopsAtEmptyPage ==
    [][\A k \in 1..Len(pageRun.requests) :
          pageRun.last[k] = "empty" /\ k <= Len(pageRun'.requests)
          => pageRun'.requests[k] = pageRun.requests[k]]_vars

\* the prosple scrapers leave a keyword when processing a page raised; seek
\* goes on to its next page
ProspleStopsAtError ==
    [][pageCfg.scraper # "seek" =>
          \A k \in 1..Len(pageRun.requests) :
              pageRun.last[k] = "raised" /\ k <= Len(pageRun'.requests)
              => pageRun'.requests[k] = pageRun.requests[k]]_vars

\* a scrape with a page limit that has made every request it can has
\* returned
LimitReachedMeansReturned ==
    HasPageLimit(pageCfg) /\ pageRun.status = "running"
    => \E k \in 1..Len(pageRun.requests) : pageRun.requests[k] < PageLimit(pageCfg)

-----------------------------------------------------------------------------
(***************************************************************************)
(* BaseScraper.process_jobs_concurrently, the same in aujobsscraper and    *)
(* jobly: a semaphore made anew by each call, one worker coroutine per     *)
(* URL, asyncio.gather without return_exceptions.  A worker's steps are    *)
(* its awaits: entering the semaphore, context.new_page(), _process_job,   *)
(* page.close().  gather hands the first exception of a worker to the      *)
(* caller at once and leaves the other workers running.  The scrapers call *)
(* it once per listing page and go on after an exception, so a call may    *)
(* begin while workers of an earlier call that raised are still running.   *)
(* page.close() is taken to succeed.                                       *)
(***************************************************************************)

MaxJobs == 2
MaxPjcCalls == 2
MaxConcurrency == 2

Worker(id, state, page) == [call |-> id, state |-> state, page |-> page, closes |-> 0]

WorkersOf(id) == {w \in 1..Len(workers) : workers[w].call = id}

\* the workers inside `async with semaphore` of the call they belong to
Holding(id) ==
    {w \in WorkersOf(id) : workers[w].state \in {"opening", "processing", "closing"}}

\* the workers that have not come to their end
Live == {w \in 1..Len(workers) : workers[w].state \notin {"done", "failed"}}

OpenPages == {w \in 1..Len(workers) : workers[w].page = "open"}
InProcessJob == {w \in 1..Len(workers) : workers[w].state = "processing"}

InitWorkers ==
    /\ InitEarlyIdle
    /\ InitEmbIdle /\ InitIndeedIdle /\ InitPageIdle /\ InitProcIdle
    /\ \E c \in 1..MaxConcurrency : pjc = [status |-> "idle", id |-> 0, concurrency |-> c]
    /\ workers = <<>>

WorkerFrame ==
    UNCHANGED <<dbVars, fpVars, scVars, pureVars, embVars, indeedVars, pageVars,
                procVars>>

\* process_jobs_concurrently(context, job_urls) up to the await of gather
ProcessJobsConcurrently(jobs) ==
    /\ pjc.status # "gathering"
    /\ pjc.id < MaxPjcCalls
    /\ pjc' = [pjc EXCEPT !.status = IF jobs = 0 THEN "returned" ELSE "gathering",
                          !.id = @ + 1]
    /\ workers' = workers \o [j \in 1..jobs |-> Worker(pjc.id + 1, "waiting", "none")]
    /\ WorkerFrame

\* `async with semaphore`: the workers of a call enter in their order while
\* the call's semaphore has a permit
EnterSemaphore(w) ==
    /\ w \in 1..Len(workers) /\ workers[w].state = "waiting"
    /\ \A v \in WorkersOf(workers[w].call) : workers[v].state = "waiting" => w <= v
    /\ Cardinality(Holding(workers[w].call)) < pjc.concurrency
    /\ workers' = [workers EXCEPT ![w].state = "opening"]
    /\ UNCHANGED pjc
    /\ WorkerFrame

\* `page = await context.new_page()` returns the worker's page
PageOpened(w) ==
    /\ w \in 1..Len(workers) /\ workers[w].state = "opening"
    /\ workers' = [workers EXCEPT ![w].state = "processing", ![w].page = "open"]
    /\ UNCHANGED pjc
    /\ WorkerFrame

\* the state of the call worker w belongs to after w ended; gather returns
\* when the last worker of the call ended and raises at the first that
\* raised
Gathered(w, raised, after) ==
    IF workers[w].call # pjc.id \/ pjc.status # "gathering" THEN pjc
    ELSE IF raised THEN [pjc EXCEPT !.status = "raised"]
    ELSE IF \A v \in WorkersOf(pjc.id) : after[v].state = "done"
    THEN [pjc EXCEPT !.status = "returned"]
    ELSE pjc

\* context.new_page() raises: outside the try, the exception leaves the
\* worker through the semaphore's exit
PageOpenRaises(w) ==
    /\ w \in 1..Len(workers) /\ workers[w].state = "opening"
    /\ workers' = [workers EXCEPT ![w].state = "failed"]
    /\ pjc' = Gathered(w, TRUE, workers')
    /\ WorkerFrame

\* _process_job returns, or raises an Exception that the worker logs
ProcessJobEnds(w, raised) ==
    /\ w \in 1..Len(workers) /\ workers[w].state = "processing"
    /\ workers' = [workers EXCEPT ![w].state = "closing"]
    /\ UNCHANGED pjc
    /\ WorkerFrame

\* finally: `await page.close()`, then the semaphore's exit and the
\* worker's end
PageClosed(w) ==
    /\ w \in 1..Len(workers) /\ workers[w].state = "closing"
    /\ workers' = [workers EXCEPT ![w].state = "done", ![w].page = "closed",
                                  ![w].closes = @ + 1]
    /\ pjc' = Gathered(w, FALSE, workers')
    /\ WorkerFrame

WorkerIds == 1..(MaxJobs * MaxPjcCalls)

NextWorkers ==
    \/ \E jobs \in 0..MaxJobs : ProcessJobsConcurrently(jobs)
    \/ \E w \in WorkerIds : EnterSemaphore(w)
    \/ \E w \in WorkerIds : PageOpened(w)
    \/ \E w \in WorkerIds : PageOpenRaises(w)
    \/ \E w \in WorkerIds, raised \in BOOLEAN : ProcessJobEnds(w, raised)
    \/ \E w \in WorkerIds : PageClosed(w)

SpecWorkers == InitWorkers /\ [][NextWorkers]_vars

\* C25: during process_jobs_concurrently the number of pages that are open
\* and the number of _process_job calls in progress are each at most the
\* configured concurrency limit, and each job in flight has its own page
C25_OpenPagesWithinConcurrency ==
    pjc.status = "gathering" =>
        /\ Cardinality(OpenPages) <= pjc.concurrency
        /\ Cardinality(InProcessJob) <= pjc.concurrency
        /\ InProcessJob \subseteq OpenPages

\* what the semaphore of one call gives: the workers of that call inside
\* the semaphore, and so their open pages, are at most the limit
PerCallWithinConcurrency ==
    \A id \in 1..pjc.id :
        /\ Cardinality(Holding(id)) <= pjc.concurrency
        /\ \A w \in WorkersOf(id) : workers[w].page = "open" => w \in Holding(id)

\* while no call has raised, the limit holds for all open pages
WithinConcurrencyUntilRaise ==
    (\A w \in 1..Len(workers) : workers[w].state # "failed")
    => Cardinality(OpenPages) <= pjc.concurrency

\* C27: every page a worker opened is closed exactly once, and no worker is
\* running and no page is open when process_jobs_concurrently has returned
\* or raised
C27_NothingLeftRunning ==
    /\ \A w \in 1..Len(workers) : workers[w].closes <= 1
    /\ \A w \in 1..Len(workers) :
           workers[w].state = "done" => workers[w].closes = 1 /\ workers[w].page = "closed"
    /\ pjc.status \in {"returned", "raised"} => Live = {} /\ OpenPages = {}

\* a page is never closed twice, a worker that ended has closed the page it
\* opened, and nothing is left when the call returns without raising
NothingLeftAtReturn ==
    /\ \A w \in 1..Len(workers) : workers[w].closes <= 1
    /\ \A w \in 1..Len(workers) :
           workers[w].state \in {"done", "failed"} => workers[w].page # "open"
    /\ pjc.status = "returned" /\ (\A w \in 1..Len(workers) : workers[w].state # "failed")
       => Live = {} /\ OpenPages = {}

-----------------------------------------------------------------------------
(* upsert_job on an existing row: _update_existing_job as one unit *)

\* caller p takes the last step of an upsert_job call that found a row
EndsExistingUpsert(p) ==
    /\ call[p].kind = "upsert"
    /\ call[p].pc \in {"fetch", "write", "scalar"}
    /\ call'[p].pc = "done"

\* the lists of row `after` are the merge of the lists of `before` with the
\* candidate's
ListsMerged(before, after, data) ==
    /\ after.locations = MergeLocations(before.locations, data.locations)
    /\ after.source_urls \in MergeUniqueValues(before.source_urls, data.source_urls)
    /\ after.platforms \in MergeUniqueValues(before.platforms, data.platforms)

\* the scalar fields of row `after` are the scalar update made from the
\* candidate and `before`
ScalarsApplied(before, after, data) ==
    LET scalar_updates == ScalarUpdates(data, before)
    IN  \A f \in DOMAIN scalar_updates : after[f] = scalar_updates[f]

\* C28: an upsert_job call on an existing row is all-or-nothing: when it
\* ends in failure the stored row is as the call found it, and when it
\* returns status "updated" both the list merge and the scalar update have
\* been applied to the row it found
C28_Step(p) ==
    EndsExistingUpsert(p) =>
        LET before == call[p].existing[1]
            after == rows'[call[p].job_id]
        IN  /\ call'[p].result.status \in {"raised", "error"} => after = before
            /\ call'[p].result.status = "updated" =>
                 /\ ListsMerged(before, after, call[p].data)
                 /\ ScalarsApplied(before, after, call[p].data)

C28_AllOrNothing == [][\A p \in Procs : C28_Step(p)]_vars

\* without failures and without overlapping calls, a call that returns
\* "updated" has applied both updates
UpdatedMeansBothApplied ==
    [][\A p \in Procs :
          EndsExistingUpsert(p) /\ call'[p].result.status = "updated" =>
              /\ ListsMerged(call[p].existing[1], rows'[call[p].job_id], call[p].data)
              /\ ScalarsApplied(call[p].existing[1], rows'[call[p].job_id],
                                call[p].data)]_vars

\* the first half of C28 for a call whose only failure is the scalar
\* update: it ends in failure, so the row carries the updated_at it was
\* found with
RaisedCallLeavesRowAsFound ==
    [][\A p \in Procs :
          /\ EndsExistingUpsert(p)
          /\ call'[p].result.status = "raised"
          /\ ~call[p].faulted
          => rows'[call[p].job_id].updated_at = call[p].existing[1].updated_at]_vars

-----------------------------------------------------------------------------
(***************************************************************************)
(* scripts/run_processor.py: process_jobs_async and process_single_job.    *)
(* A stored job is whether it has a description and whether its            *)
(* llm_analysis is set.  The select of the unanalysed jobs has a limit and *)
(* no order, so it returns any batch_size of them.  The jobs of a batch    *)
(* are analysed concurrently, one step each; what the analyser gives for a *)
(* job (an analysis, nothing, or an exception) is drawn by the             *)
(* environment.                                                            *)
(***************************************************************************)

MaxStored == 3
MaxBatch == 2

StoredJob(description, llm_analysis) ==
    [description |-> description, llm_analysis |-> llm_analysis]

\* .is_("llm_analysis", "null")
Unanalysed == {j \in 1..Len(store) : ~store[j].llm_analysis}

\* .limit(batch_size): the sets of rows the select may return
Batches(limit) ==
    {jobs \in SUBSET Unanalysed :
        Cardinality(jobs) = IF Cardinality(Unanalysed) < limit
                            THEN Cardinality(Unanalysed) ELSE limit}

InitProc ==
    /\ InitEarlyIdle
    /\ InitEmbIdle /\ InitIndeedIdle /\ InitPageIdle /\ InitWorkersIdle
    /\ \E n \in 1..MaxStored :
           store \in [1..n -> {StoredJob(d, a) : d, a \in BOOLEAN}]
    /\ \E batch_size \in 1..MaxBatch :
           loop = [pc |-> "fetch", batch_size |-> batch_size, jobs |-> {}]

ProcFrame ==
    UNCHANGED <<dbVars, fpVars, scVars, pureVars, embVars, indeedVars, pageVars,
                workerVars>>

\* the select at the head of the loop: break when it returns no job
FetchUnanalysed(jobs) ==
    /\ loop.pc = "fetch"
    /\ jobs \in Batches(loop.batch_size)
    /\ loop' = IF jobs = {} THEN [loop EXCEPT !.pc = "finished"]
               ELSE [loop EXCEPT !.pc = "gather", !.jobs = jobs]
    /\ UNCHANGED store
    /\ ProcFrame

\* the select raises: `except Exception` logs and breaks
FetchRaises ==
    /\ loop.pc = "fetch"
    /\ loop' = [loop EXCEPT !.pc = "finished"]
    /\ UNCHANGED store
    /\ ProcFrame

\* process_single_job of one job of the batch
ProcessSingleJob(job, outcome) ==
    /\ loop.pc = "gather"
    /\ job \in loop.jobs
    /\ loop' = [loop EXCEPT !.jobs = @ \ {job}]
    /\ store' = IF store[job].description /\ outcome = "analysis"
                THEN [store EXCEPT ![job].llm_analysis = TRUE]
                ELSE store
    /\ ProcFrame

\* gather has returned; after the sleep the loop starts over
NextIteration ==
    /\ loop.pc = "gather"
    /\ loop.jobs = {}
    /\ loop' = [loop EXCEPT !.pc = "fetch"]
    /\ UNCHANGED store
    /\ ProcFrame

NextProc ==
    \/ \E jobs \in SUBSET (1..MaxStored) : FetchUnanalysed(jobs)
    \/ FetchRaises
    \/ \E job \in 1..MaxStored, outcome \in {"analysis", "empty", "raised"} :
          ProcessSingleJob(job, outcome)
    \/ NextIteration

SpecProc == InitProc /\ [][NextProc]_vars

\* the event loop runs the coroutine as long as it has a step to take, the
\* select of the unanalysed jobs does not raise for ever, and a job with a
\* description that is analysed again and again gets an analysis in the end
SpecProcFair ==
    /\ SpecProc
    /\ WF_vars(NextProc)
    /\ WF_vars(\E jobs \in SUBSET (1..MaxStored) : FetchUnanalysed(jobs))
    /\ \A job \in 1..MaxStored :
           SF_vars(ProcessSingleJob(job, "analysis") /\ store[job].description)

\* C29: process_jobs_async terminates for every finite store
C29_ProcessorTerminates == <>(loop.pc = "finished")

\* a job without description is never given an analysis, so it is fetched as
\* unanalysed by every later select that can hold it
UndescribedStaysUnanalysed ==
    [][\A job \in 1..Len(store) :
          ~store[job].description => store'[job].llm_analysis = store[job].llm_analysis]_vars

\* the loop ends at a select that returned nothing or raised
FinishedAtFetch ==
    [][loop'.pc = "finished" => loop.pc \in {"fetch", "finished"}]_vars

\* the processor does terminate when every unanalysed job has a description
TerminatesWhenAllDescribed ==
    (\A job \in 1..Len(store) : store[job].description \/ store[job].llm_analysis)
    => <>(loop.pc = "finished")
====
